---- MODULE Spec2Model ----
(***************************************************************************)
(* Assessment engine of edu-tests-platform: the test-attempt life cycle    *)
(* (start_test, submit_answer, finish_test) of profile/student, over the   *)
(* catalog tables of profile/teacher, with the authoring, analytics and    *)
(* account-deletion operations that read or remove those rows.  Every      *)
(* await on the database session is one step of a request; requests run in *)
(* separate sessions, so their steps interleave.  Rows live in functions   *)
(* from primary key to record; foreign keys cascade as the models declare. *)
(***************************************************************************)
EXTENDS Integers, Sequences, FiniteSets, TLC

VARIABLES tests, questions, options, attempts, answers, nextId, proc,
          entities, deleted_objects, role_requests, tokens

catalogVars == <<tests, questions, options>>
engineVars == <<attempts, answers, nextId>>
outerVars == <<entities, deleted_objects>>
authVars == <<role_requests, tokens>>
vars == <<tests, questions, options, attempts, answers, nextId, proc,
          entities, deleted_objects, role_requests, tokens>>

\* ---------------------------------------------------------------- bounds
MaxAttempts == 2
MaxAnswers == 2
\* tests, and questions, created during a run
MaxCreated == 1
\* role requests created during a run
MaxRequests == 2

\* ------------------------------------------------------------ identities
Procs == {1, 2}
Students == {1, 2}
Teachers == {10, 11}
TestIds == {"t1", "t2"}
QuestionIds == {"q1", "q2", "q3"}
OptionIds == {"o1", "o2"}
AttemptIds == 1..MaxAttempts
\* primary keys handed out to the rows created during a run, in this order
NewTestIds == <<"t3", "t4", "t5">>
NewQuestionIds == <<"q4", "q5", "q6">>
NewOptionIds == <<"o3", "o4", "o5">>

IN_PROGRESS == "IN_PROGRESS"
COMPLETED == "COMPLETED"
DRAFT == "DRAFT"
PUBLISHED == "PUBLISHED"
ARCHIVED == "ARCHIVED"
TestStatus == {DRAFT, PUBLISHED, ARCHIVED}
STUDENT == "student"
TEACHER == "teacher"
ADMIN == "admin"
SPECIALIST == "specialist"
Role == {ADMIN, STUDENT, TEACHER}
DesiredRole == {STUDENT, TEACHER, SPECIALIST}
PENDING == "pending"
APPROVED == "approved"
REJECTED == "rejected"

\* -------------------------------------------------------------- helpers
Range(s) == {s[i] : i \in DOMAIN s}

\* chosen_answer_option_ids is a list: it may repeat an id, in any order
ChosenLists ==
    {<<>>, <<"o1">>, <<"o2">>, <<"o1", "o2">>, <<"o2", "o1">>, <<"o1", "o1">>}

RECURSIVE Gcd(_, _)
Gcd(a, b) == IF b = 0 THEN a ELSE Gcd(b, a % b)

\* a score is a fraction <<numerator, denominator>> in lowest terms; the
\* nullable column holds <<>> for NULL
NullScore == <<>>
Fraction(n, d) == LET g == Gcd(n, d) IN <<n \div g, d \div g>>

RECURSIVE SumOver(_, _)
SumOver(f, S) ==
    IF S = {} THEN 0
    ELSE LET x == CHOOSE y \in S : TRUE IN f[x] + SumOver(f, S \ {x})

Min(S) == CHOOSE x \in S : \A y \in S : x <= y

\* ------------------------------------------------------- object storage
\* a URL is the sequence of its path segments, an object key likewise; None
\* and the empty string, both falsy, are the empty sequence
bucket_name == "bucket"
NoImage == <<>>
NoKey == <<>>

get_public_url(object_key) == <<"localhost", bucket_name>> \o object_key

\* url.split(bucket_name + "/")[1]: what follows the first bucket segment, up
\* to the next one; IndexError (no bucket segment) gives None
get_key_from_url(url) ==
    LET I == {i \in DOMAIN url : url[i] = bucket_name}
    IN IF I = {} THEN NoKey
       ELSE LET i == Min(I)
                J == {j \in I : j > i}
            IN SubSeq(url, i + 1, IF J = {} THEN Len(url) ELSE Min(J) - 1)

\* the keys s3_client.delete_file is called with for a collection of urls
delete_files(urls) ==
    {get_key_from_url(u) : u \in {v \in urls : v # NoImage}} \ {NoKey}

\* ------------------------------------------------------ request records
Idle ==
    [pc |-> "idle", op |-> "none", student |-> 0, test |-> "none",
     attempt |-> 0, question |-> "none", chosen |-> <<>>,
     test_questions |-> {}, correct |-> {}, is_correct |-> FALSE,
     found |-> 0, total |-> 0, earned |-> 0, score |-> NullScore,
     teacher |-> 0, status |-> "none", entity |-> 0,
     search_query |-> <<>>, total_attempts |-> 0,
     average_score |-> NullScore, question_analytics |-> <<>>,
     results |-> {}, title |-> "none", image_set |-> FALSE,
     image |-> <<>>, answer_ids |-> {}, options_set |-> FALSE,
     answer_options |-> <<>>, payload |-> <<>>, request |-> 0,
     role |-> "none", password |-> FALSE, original |-> <<>>,
     unique_title |-> "none", result |-> "none"]

Done(r, res) == [r EXCEPT !.pc = "done", !.result = res]

\* ------------------------------------------------- StudentRepository
\* variant: the status filter names the wrong member of TestAttemptStatus
has_active_attempt_wrong_status(student_id) ==
    \E a \in DOMAIN attempts :
        /\ attempts[a].student_id = student_id
        /\ attempts[a].status = COMPLETED

\* variant: the student_id filter is missing
has_active_attempt_any_student(student_id) ==
    \E a \in DOMAIN attempts : attempts[a].status = IN_PROGRESS

has_active_attempt(student_id) ==
    \E a \in DOMAIN attempts :
        /\ attempts[a].student_id = student_id
        /\ attempts[a].status = IN_PROGRESS

\* variant: the status filter is missing
get_test_for_student_by_id_any_status(test_id) == test_id \in DOMAIN tests

get_test_for_student_by_id(test_id) ==
    test_id \in DOMAIN tests /\ tests[test_id].status = PUBLISHED

\* variant: an earlier attempt of the student on the test is reopened
create_test_attempt_reopen(student_id, test_id) ==
    LET old == {a \in DOMAIN attempts :
                    attempts[a].student_id = student_id
                    /\ attempts[a].test_id = test_id}
    IN IF old = {}
       THEN (nextId.attempt :> [student_id |-> student_id, test_id |-> test_id,
                                status |-> IN_PROGRESS, score |-> NullScore])
            @@ attempts
       ELSE [a \in DOMAIN attempts |->
                IF a \in old
                THEN [attempts[a] EXCEPT !.status = IN_PROGRESS]
                ELSE attempts[a]]

create_test_attempt(student_id, test_id) ==
    (nextId.attempt :> [student_id |-> student_id, test_id |-> test_id,
                        status |-> IN_PROGRESS, score |-> NullScore])
        @@ attempts

get_attempt_with_results(attempt_id) == attempt_id \in DOMAIN attempts

\* attempt.test.questions as loaded with the attempt
test_questions(test_id) ==
    {q \in DOMAIN questions : questions[q].test_id = test_id}

\* attempt.student_answers as loaded with the attempt (primary keys)
student_answers(attempt_id) ==
    {i \in DOMAIN answers : answers[i].attempt_id = attempt_id}

get_correct_answers_for_question(question_id) ==
    {o \in DOMAIN options :
        options[o].question_id = question_id /\ options[o].is_correct}

\* the first SELECT of save_student_answer: rows of the (attempt, question)
existing_student_answers(attempt_id, question_id) ==
    {i \in DOMAIN answers :
        answers[i].attempt_id = attempt_id
        /\ answers[i].question_id = question_id}

\* the second SELECT of save_student_answer: AnswerOption.answer_id IN (...)
chosen_options(chosen_option_ids) ==
    {o \in DOMAIN options : o \in Range(chosen_option_ids)}

\* variant: the UPDATE path forgets to replace the chosen options
save_student_answer_keep_options(found, attempt_id, question_id, chosen_option_ids, is_correct) ==
    IF found # 0
    THEN [answers EXCEPT ![found] = [@ EXCEPT !.is_correct = is_correct]]
    ELSE (nextId.answer :>
            [attempt_id |-> attempt_id, question_id |-> question_id,
             is_correct |-> is_correct,
             chosen_options |-> chosen_options(chosen_option_ids)])
         @@ answers

\* the flush at commit: UPDATE of the row found, or INSERT of a new one
save_student_answer(found, attempt_id, question_id, chosen_option_ids, is_correct) ==
    IF found # 0
    THEN [answers EXCEPT ![found] =
            [@ EXCEPT !.is_correct = is_correct,
                      !.chosen_options = chosen_options(chosen_option_ids)]]
    ELSE (nextId.answer :>
            [attempt_id |-> attempt_id, question_id |-> question_id,
             is_correct |-> is_correct,
             chosen_options |-> chosen_options(chosen_option_ids)])
         @@ answers

\* variant: the status is written, the score in a later statement
update_test_attempt_status_only(attempt_id, status, score) ==
    [a \in DOMAIN attempts |->
        IF a = attempt_id
        THEN [attempts[a] EXCEPT !.status = status]
        ELSE attempts[a]]

update_test_attempt(attempt_id, status, score) ==
    [a \in DOMAIN attempts |->
        IF a = attempt_id
        THEN [attempts[a] EXCEPT !.status = status, !.score = score]
        ELSE attempts[a]]

\* variant: the COMPLETED check is missing
attempt_guard_no_status(attempt_id) ==
    IF ~get_attempt_with_results(attempt_id) THEN "AttemptNotFound" ELSE "ok"

\* the guard both submit_answer and finish_test open with
attempt_guard(attempt_id) ==
    IF ~get_attempt_with_results(attempt_id) THEN "AttemptNotFound"
    ELSE IF attempts[attempt_id].status = COMPLETED
         THEN "AttemptAlreadyFinished"
         ELSE "ok"

\* variant: the question exists, in whatever test
question_exists_in_test_any(question_id, attempt_test_questions) ==
    question_id \in DOMAIN questions

\* any(q.question_id == answer_data.question_id for q in attempt.test.questions)
question_exists_in_test(question_id, attempt_test_questions) ==
    question_id \in attempt_test_questions

\* variant: partial credit, every chosen option is a correct one
evaluate_subset(chosen_option_ids, correct_answer_ids) ==
    Range(chosen_option_ids) \subseteq correct_answer_ids

\* AnswerEvaluator: chosen_ids == correct_answer_ids on sets
evaluate(chosen_option_ids, correct_answer_ids) ==
    Range(chosen_option_ids) = correct_answer_ids

\* ScoreFinalizer
total_possible_points(test_id) ==
    SumOver([q \in DOMAIN questions |-> questions[q].points],
            test_questions(test_id))

\* variant: the answers are compared again with the correct options of now
earned_points_compared_again(attempt_id) ==
    SumOver([i \in DOMAIN answers |-> questions[answers[i].question_id].points],
            {i \in student_answers(attempt_id) :
                answers[i].chosen_options
                  = get_correct_answers_for_question(answers[i].question_id)})

earned_points(attempt_id) ==
    SumOver([i \in DOMAIN answers |-> questions[answers[i].question_id].points],
            {i \in student_answers(attempt_id) : answers[i].is_correct})

\* variant: floor division, earned // total
score_percentage_floor(earned, total) ==
    IF total > 0 THEN Fraction((earned \div total) * 100, 1) ELSE Fraction(0, 1)

score_percentage(earned, total) ==
    IF total > 0 THEN Fraction(earned * 100, total) ELSE Fraction(0, 1)

\* ---------------------------------------------- StudentServices.start_test
start_test_check(p, in) ==
    /\ proc[p].pc = "idle"
    /\ \E s \in in.students, t \in in.tests :
         LET r == [Idle EXCEPT !.op = "start_test", !.student = s, !.test = t]
         IN proc' = [proc EXCEPT ![p] =
                IF has_active_attempt(s)
                THEN Done(r, "ActiveTestAttemptExists")
                ELSE [r EXCEPT !.pc = "st_lookup"]]
    /\ UNCHANGED <<authVars, outerVars, catalogVars, engineVars>>

start_test_lookup(p) ==
    /\ proc[p].pc = "st_lookup"
    /\ proc' = [proc EXCEPT ![p] =
            IF get_test_for_student_by_id(proc[p].test)
            THEN [@ EXCEPT !.pc = "st_create"]
            ELSE Done(@, "TestNotFound")]
    /\ UNCHANGED <<authVars, outerVars, catalogVars, engineVars>>

\* the INSERT violates a foreign key when the test or the student account
\* has been deleted since the lookup: IntegrityError, nothing is stored
start_test_create(p) ==
    /\ proc[p].pc = "st_create"
    /\ IF proc[p].test \in DOMAIN tests /\ proc[p].student \in DOMAIN entities
       THEN /\ nextId.attempt <= MaxAttempts
            /\ attempts' = create_test_attempt(proc[p].student, proc[p].test)
            /\ nextId' = [nextId EXCEPT !.attempt = @ + 1]
            /\ proc' = [proc EXCEPT ![p] =
                    Done([@ EXCEPT !.attempt = nextId.attempt], "ok")]
       ELSE /\ proc' = [proc EXCEPT ![p] = Done(@, "IntegrityError")]
            /\ UNCHANGED <<attempts, nextId>>
    /\ UNCHANGED <<authVars, outerVars, catalogVars, answers>>

\* ------------------------------------------- StudentServices.submit_answer
\* the caller (restrict.sub) reaches the view and is not handed on
submit_answer_load(p, in) ==
    /\ proc[p].pc = "idle"
    /\ \E s \in in.students, a \in AttemptIds, q \in in.questions,
          c \in in.chosen :
         LET r == [Idle EXCEPT !.op = "submit_answer", !.student = s,
                               !.attempt = a, !.question = q, !.chosen = c]
             g == attempt_guard(a)
         IN proc' = [proc EXCEPT ![p] =
                IF g # "ok" THEN Done(r, g)
                ELSE [r EXCEPT !.pc = "sa_evaluate",
                               !.test = attempts[a].test_id,
                               !.test_questions =
                                   test_questions(attempts[a].test_id)]]
    /\ UNCHANGED <<authVars, outerVars, catalogVars, engineVars>>

submit_answer_evaluate(p) ==
    /\ proc[p].pc = "sa_evaluate"
    /\ LET correct == get_correct_answers_for_question(proc[p].question)
       IN proc' = [proc EXCEPT ![p] =
            IF ~question_exists_in_test(proc[p].question,
                                        proc[p].test_questions)
            THEN Done(@, "QuestionNotFoundInTest")
            ELSE [@ EXCEPT !.pc = "sa_select",
                           !.correct = correct,
                           !.is_correct = evaluate(proc[p].chosen, correct)]]
    /\ UNCHANGED <<authVars, outerVars, catalogVars, engineVars>>

save_student_answer_select(p) ==
    /\ proc[p].pc = "sa_select"
    /\ LET rows == existing_student_answers(proc[p].attempt, proc[p].question)
       IN proc' = [proc EXCEPT ![p] =
            IF Cardinality(rows) > 1
            THEN Done(@, "MultipleResultsFound")
            ELSE [@ EXCEPT !.pc = "sa_commit",
                           !.found = IF rows = {} THEN 0
                                     ELSE CHOOSE i \in rows : TRUE]]
    /\ UNCHANGED <<authVars, outerVars, catalogVars, engineVars>>

\* the flush fails when a cascade has removed the row to UPDATE
\* (StaleDataError) or a parent of the row to INSERT (IntegrityError)
save_student_answer_commit(p) ==
    /\ proc[p].pc = "sa_commit"
    /\ IF proc[p].found # 0 /\ proc[p].found \notin DOMAIN answers
       THEN /\ proc' = [proc EXCEPT ![p] = Done(@, "StaleDataError")]
            /\ UNCHANGED <<answers, nextId>>
       ELSE IF proc[p].found = 0
               /\ (proc[p].attempt \notin DOMAIN attempts
                   \/ proc[p].question \notin DOMAIN questions)
       THEN /\ proc' = [proc EXCEPT ![p] = Done(@, "IntegrityError")]
            /\ UNCHANGED <<answers, nextId>>
       ELSE /\ proc[p].found = 0 => nextId.answer <= MaxAnswers
            /\ answers' = save_student_answer(proc[p].found, proc[p].attempt,
                                              proc[p].question, proc[p].chosen,
                                              proc[p].is_correct)
            /\ nextId' = IF proc[p].found = 0
                         THEN [nextId EXCEPT !.answer = @ + 1]
                         ELSE nextId
            /\ proc' = [proc EXCEPT ![p] = Done(@, "ok")]
    /\ UNCHANGED <<authVars, outerVars, catalogVars, attempts>>

\* --------------------------------------------- StudentServices.finish_test
finish_test_load(p, in) ==
    /\ proc[p].pc = "idle"
    /\ \E s \in in.students, a \in AttemptIds :
         LET r == [Idle EXCEPT !.op = "finish_test", !.student = s,
                               !.attempt = a]
             g == attempt_guard(a)
         IN proc' = [proc EXCEPT ![p] =
                IF g # "ok" THEN Done(r, g)
                ELSE LET total == total_possible_points(attempts[a].test_id)
                         earned == earned_points(a)
                     IN [r EXCEPT !.pc = "ft_update",
                                  !.test = attempts[a].test_id,
                                  !.total = total,
                                  !.earned = earned,
                                  !.score = score_percentage(earned, total)]]
    /\ UNCHANGED <<authVars, outerVars, catalogVars, engineVars>>

\* when a cascade has removed the attempt the UPDATE returns no row and
\* building the result raises AttributeError
finish_test_update(p) ==
    /\ proc[p].pc = "ft_update"
    /\ attempts' = update_test_attempt(proc[p].attempt, COMPLETED,
                                       proc[p].score)
    /\ proc' = [proc EXCEPT ![p] =
            Done(@, IF proc[p].attempt \in DOMAIN attempts
                    THEN "ok" ELSE "AttributeError")]
    /\ UNCHANGED <<authVars, outerVars, catalogVars, answers, nextId>>

\* ------------------------------------------------ foreign-key cascades
Restrict(f, S) == [x \in S |-> f[x]]

tests_of(teacher_id) ==
    {t \in DOMAIN tests : tests[t].teacher_id = teacher_id}

attempts_of(student_id) ==
    {a \in DOMAIN attempts : attempts[a].student_id = student_id}

answer_options(Q) == {o \in DOMAIN options : options[o].question_id \in Q}

\* DELETE of the tests T, questions Q0, options O0 and attempts A0 with every
\* row that references them through an ondelete CASCADE foreign key
Cascade(T, Q0, O0, A0) ==
    LET Q == Q0 \cup {q \in DOMAIN questions : questions[q].test_id \in T}
        O == O0 \cup answer_options(Q)
        A == A0 \cup {a \in DOMAIN attempts : attempts[a].test_id \in T}
        N == {i \in DOMAIN answers :
                answers[i].attempt_id \in A \/ answers[i].question_id \in Q}
    IN /\ tests' = Restrict(tests, DOMAIN tests \ T)
       /\ questions' = Restrict(questions, DOMAIN questions \ Q)
       /\ options' = Restrict(options, DOMAIN options \ O)
       /\ attempts' = Restrict(attempts, DOMAIN attempts \ A)
       /\ answers' = [i \in DOMAIN answers \ N |->
                        [answers[i] EXCEPT !.chosen_options = @ \ O]]

\* ------------------------------------------------------ TeacherRepository
get_test_by_id(test_id, teacher_id) ==
    test_id \in DOMAIN tests /\ tests[test_id].teacher_id = teacher_id

\* image_url of the test, of its questions and of their answer options, as
\* loaded by get_test_by_id
test_image_urls(test_id) ==
    {tests[test_id].image_url}
    \cup {questions[q].image_url : q \in test_questions(test_id)}
    \cup {options[o].image_url : o \in answer_options(test_questions(test_id))}

\* ------------------------------------- TeacherServices.update_test_status
\* reached through publish_test and archive_test
update_test_status(p, in) ==
    /\ proc[p].pc = "idle"
    /\ \E c \in in.teachers, t \in in.tests, st \in {PUBLISHED, ARCHIVED} :
         LET r == [Idle EXCEPT !.op = "update_test_status", !.teacher = c,
                               !.test = t, !.status = st]
         IN IF get_test_by_id(t, c)
            THEN /\ tests' = [tests EXCEPT ![t].status = st]
                 /\ proc' = [proc EXCEPT ![p] = Done(r, "ok")]
            ELSE /\ tests' = tests
                 /\ proc' = [proc EXCEPT ![p] = Done(r, "NotFoundUuid")]
    /\ UNCHANGED <<authVars, outerVars, questions, options, engineVars>>

\* ---------------------------------------- TeacherServices.duplicate_test
\* " (kopiya i)" stands for the Cyrillic suffix of the source
copy_title(base_title, i) == base_title \o " (kopiya " \o ToString(i) \o ")"

\* get_tests_by_title_prefix only narrows the titles of the teacher to those
\* that start with base_title, as every title tested for membership does
generate_unique_title(base_title, teacher_id) ==
    LET existing_titles == {tests[t].title : t \in tests_of(teacher_id)}
    IN IF base_title \notin existing_titles THEN base_title
       ELSE copy_title(base_title,
                Min({i \in 1..(Cardinality(existing_titles) + 1) :
                        copy_title(base_title, i) \notin existing_titles}))

max_attempts == 10

\* primary keys of the rows of a copy
CopyId(id, new_test) == id \o "@" \o new_test

\* original_test with its questions and their answer options, as loaded
duplicate_test_load(p, in) ==
    /\ proc[p].pc = "idle"
    /\ \E c \in in.teachers, t \in in.tests :
         LET r == [Idle EXCEPT !.op = "duplicate_test", !.teacher = c,
                               !.test = t]
             Q == test_questions(t)
         IN proc' = [proc EXCEPT ![p] =
                IF ~get_test_by_id(t, c) THEN Done(r, "NotFoundUuid")
                ELSE [r EXCEPT !.pc = "dup_title",
                               !.title = tests[t].title,
                               !.total = 0,
                               !.original =
                                  [test |-> tests[t],
                                   questions |-> Restrict(questions, Q),
                                   options |-> Restrict(options,
                                                        answer_options(Q))]]]
    /\ UNCHANGED <<authVars, outerVars, catalogVars, engineVars>>

duplicate_test_title(p) ==
    /\ proc[p].pc = "dup_title"
    /\ proc' = [proc EXCEPT ![p] =
            [@ EXCEPT !.pc = "dup_add",
                      !.unique_title =
                          generate_unique_title(proc[p].title,
                                                proc[p].teacher)]]
    /\ UNCHANGED <<authVars, outerVars, catalogVars, engineVars>>

\* the INSERT of the copy: the test as DRAFT, a question with the text and
\* the image of each original question (points is not copied and takes the
\* column default), an option for each original option. A violated
\* constraint counts one attempt and makes the title the next base_title
add_test(p) ==
    /\ proc[p].pc = "dup_add"
    /\ LET o == proc[p].original
           new == NewTestIds[nextId.test]
       IN IF (\E t \in DOMAIN tests : tests[t].title = proc[p].unique_title)
                \/ proc[p].teacher \notin DOMAIN entities
          THEN /\ proc' = [proc EXCEPT ![p] =
                      IF proc[p].total + 1 < max_attempts
                      THEN [@ EXCEPT !.pc = "dup_title",
                                     !.total = @ + 1,
                                     !.title = proc[p].unique_title]
                      ELSE Done([@ EXCEPT !.total = @ + 1], "500")]
               /\ UNCHANGED <<catalogVars, nextId>>
          ELSE /\ nextId.test <= MaxCreated
               /\ tests' = (new :> [teacher_id |-> proc[p].teacher,
                                     status |-> DRAFT,
                                     title |-> proc[p].unique_title,
                                     image_url |-> o.test.image_url])
                            @@ tests
               /\ questions' =
                     [q \in {CopyId(x, new) : x \in DOMAIN o.questions} |->
                        LET x == CHOOSE y \in DOMAIN o.questions :
                                     CopyId(y, new) = q
                        IN [test_id |-> new, points |-> 1,
                            question_text |-> o.questions[x].question_text,
                            image_url |-> o.questions[x].image_url]]
                     @@ questions
               /\ options' =
                     [a \in {CopyId(x, new) : x \in DOMAIN o.options} |->
                        LET x == CHOOSE y \in DOMAIN o.options :
                                     CopyId(y, new) = a
                        IN [question_id |->
                                CopyId(o.options[x].question_id, new),
                            is_correct |-> o.options[x].is_correct,
                            image_url |-> o.options[x].image_url]]
                     @@ options
               /\ nextId' = [nextId EXCEPT !.test = @ + 1]
               /\ proc' = [proc EXCEPT ![p] =
                      [@ EXCEPT !.pc = "dup_fetch", !.test = new]]
    /\ UNCHANGED <<authVars, outerVars, attempts, answers>>

\* the SELECT after the commit: scalar_one() raises when the copy is gone
add_test_fetch(p) ==
    /\ proc[p].pc = "dup_fetch"
    /\ proc' = [proc EXCEPT ![p] =
            Done(@, IF proc[p].test \in DOMAIN tests THEN "ok" ELSE "500")]
    /\ UNCHANGED <<authVars, outerVars, catalogVars, engineVars>>

\* ------------------------------------------- TeacherServices.delete_test
\* variant: the images are collected without looking at the owner
delete_test_load_any_owner(p, in) ==
    /\ proc[p].pc = "idle"
    /\ \E c \in in.teachers, t \in in.tests :
         LET r == [Idle EXCEPT !.op = "delete_test", !.teacher = c, !.test = t]
         IN IF t \in DOMAIN tests
            THEN /\ deleted_objects' =
                        deleted_objects \cup delete_files(test_image_urls(t))
                 /\ proc' = [proc EXCEPT ![p] = [r EXCEPT !.pc = "dt_delete"]]
            ELSE /\ deleted_objects' = deleted_objects
                 /\ proc' = [proc EXCEPT ![p] = Done(r, "NotFoundUuid")]
    /\ UNCHANGED <<authVars, entities, catalogVars, engineVars>>

delete_test_load(p, in) ==
    /\ proc[p].pc = "idle"
    /\ \E c \in in.teachers, t \in in.tests :
         LET r == [Idle EXCEPT !.op = "delete_test", !.teacher = c, !.test = t]
         IN IF get_test_by_id(t, c)
            THEN /\ deleted_objects' =
                        deleted_objects \cup delete_files(test_image_urls(t))
                 /\ proc' = [proc EXCEPT ![p] = [r EXCEPT !.pc = "dt_delete"]]
            ELSE /\ deleted_objects' = deleted_objects
                 /\ proc' = [proc EXCEPT ![p] = Done(r, "NotFoundUuid")]
    /\ UNCHANGED <<authVars, entities, catalogVars, engineVars>>

delete_test_by_id(p) ==
    /\ proc[p].pc = "dt_delete"
    /\ IF get_test_by_id(proc[p].test, proc[p].teacher)
       THEN /\ Cascade({proc[p].test}, {}, {}, {})
            /\ proc' = [proc EXCEPT ![p] = Done(@, "ok")]
       ELSE /\ proc' = [proc EXCEPT ![p] = Done(@, "NotFoundUuid")]
            /\ UNCHANGED <<catalogVars, attempts, answers>>
    /\ UNCHANGED <<authVars, outerVars, nextId>>

\* ------------------------------------------- TeacherServices.create_test
\* Test.title is unique=True; a violated constraint (the title, or the
\* teacher_id foreign key) is reported as AlreadyExists
create_test(p, in) ==
    /\ proc[p].pc = "idle"
    /\ \E c \in in.teachers, ti \in in.titles, im \in in.images :
         LET r == [Idle EXCEPT !.op = "create_test", !.teacher = c,
                               !.title = ti, !.image = im]
             new == NewTestIds[nextId.test]
         IN IF (\E t \in DOMAIN tests : tests[t].title = ti)
                  \/ c \notin DOMAIN entities
            THEN /\ proc' = [proc EXCEPT ![p] = Done(r, "AlreadyExists")]
                 /\ UNCHANGED <<tests, nextId>>
            ELSE /\ nextId.test <= MaxCreated
                 /\ tests' = (new :> [teacher_id |-> c, status |-> DRAFT,
                                       title |-> ti, image_url |-> im])
                              @@ tests
                 /\ nextId' = [nextId EXCEPT !.test = @ + 1]
                 /\ proc' = [proc EXCEPT ![p] =
                        Done([r EXCEPT !.test = new], "ok")]
    /\ UNCHANGED <<authVars, outerVars, questions, options, attempts, answers>>

\* --------------------------------------------- TeacherServices.edit_test
\* title "none" and image_set FALSE stand for fields not in the payload
edit_test_load(p, in) ==
    /\ proc[p].pc = "idle"
    /\ \E c \in in.teachers, t \in in.tests, ti \in in.titles \cup {"none"},
          is \in BOOLEAN, im \in in.images :
         /\ ti # "none" \/ is
         /\ ~is => im = NoImage
         /\ LET r == [Idle EXCEPT !.op = "edit_test", !.teacher = c,
                                  !.test = t, !.title = ti, !.image_set = is,
                                  !.image = im]
            IN IF ~get_test_by_id(t, c)
               THEN /\ proc' = [proc EXCEPT ![p] = Done(r, "NotFoundUuid")]
                    /\ deleted_objects' = deleted_objects
               ELSE /\ proc' = [proc EXCEPT ![p] = [r EXCEPT !.pc = "et_update"]]
                    /\ deleted_objects' =
                          IF is /\ tests[t].image_url # NoImage
                                /\ im # tests[t].image_url
                          THEN deleted_objects
                                 \cup delete_files({tests[t].image_url})
                          ELSE deleted_objects
    /\ UNCHANGED <<authVars, entities, catalogVars, engineVars>>

edit_test_update(p) ==
    /\ proc[p].pc = "et_update"
    /\ LET t == proc[p].test
           found == get_test_by_id(t, proc[p].teacher)
       IN IF found /\ proc[p].title # "none"
                /\ \E u \in DOMAIN tests \ {t} : tests[u].title = proc[p].title
          THEN /\ proc' = [proc EXCEPT ![p] = Done(@, "AlreadyExists")]
               /\ tests' = tests
          ELSE IF ~found
          THEN /\ proc' = [proc EXCEPT ![p] = Done(@, "NotFoundUuid")]
               /\ tests' = tests
          ELSE /\ proc' = [proc EXCEPT ![p] = Done(@, "ok")]
               /\ tests' = [tests EXCEPT ![t] =
                      [@ EXCEPT !.title = IF proc[p].title # "none"
                                          THEN proc[p].title ELSE @,
                                !.image_url = IF proc[p].image_set
                                              THEN proc[p].image ELSE @]]
    /\ UNCHANGED <<authVars, outerVars, questions, options, engineVars>>

\* -------------------------------------- TeacherServices.delete_all_tests
delete_all_tests_load(p, in) ==
    /\ proc[p].pc = "idle"
    /\ \E c \in in.teachers :
         /\ proc' = [proc EXCEPT ![p] =
                [Idle EXCEPT !.op = "delete_all_tests", !.teacher = c,
                             !.pc = "dat_delete"]]
         /\ deleted_objects' =
                deleted_objects
                \cup UNION {delete_files(test_image_urls(t)) : t \in tests_of(c)}
    /\ UNCHANGED <<authVars, entities, catalogVars, engineVars>>

delete_all_tests(p) ==
    /\ proc[p].pc = "dat_delete"
    /\ Cascade(tests_of(proc[p].teacher), {}, {}, {})
    /\ proc' = [proc EXCEPT ![p] = Done(@, "ok")]
    /\ UNCHANGED <<authVars, outerVars, nextId>>

\* -------------------------- TeacherServices.create_question_with_answers
\* the question comes with no answer option, or with one that holds the
\* same image
create_question_check(p, in) ==
    /\ proc[p].pc = "idle"
    /\ \E c \in in.teachers, t \in in.tests, im \in in.images,
          n \in {0, 1} :
         LET r == [Idle EXCEPT !.op = "create_question_with_answers",
                               !.teacher = c, !.test = t, !.image = im,
                               !.total = n]
         IN proc' = [proc EXCEPT ![p] =
                IF get_test_by_id(t, c) THEN [r EXCEPT !.pc = "cq_commit"]
                ELSE Done(r, "NotFoundUuid")]
    /\ UNCHANGED <<authVars, outerVars, catalogVars, engineVars>>

\* the INSERT fails on the foreign key when the test is gone: HTTP 500
create_question_with_answers(p) ==
    /\ proc[p].pc = "cq_commit"
    /\ LET q == NewQuestionIds[nextId.question]
           o == NewOptionIds[nextId.question]
       IN IF proc[p].test \notin DOMAIN tests
          THEN /\ proc' = [proc EXCEPT ![p] = Done(@, "500")]
               /\ UNCHANGED <<questions, options, nextId>>
          ELSE /\ nextId.question <= MaxCreated
               /\ questions' =
                     (q :> [test_id |-> proc[p].test, points |-> 1,
                            question_text |-> <<"c">>,
                            image_url |-> proc[p].image])
                     @@ questions
               /\ options' =
                     IF proc[p].total = 1
                     THEN (o :> [question_id |-> q, is_correct |-> TRUE,
                                 image_url |-> proc[p].image])
                          @@ options
                     ELSE options
               /\ nextId' = [nextId EXCEPT !.question = @ + 1]
               /\ proc' = [proc EXCEPT ![p] =
                      Done([@ EXCEPT !.question = q], "ok")]
    /\ UNCHANGED <<authVars, outerVars, tests, attempts, answers>>

\* get_question_by_id of the repository
get_question_by_id(test_id, question_id) ==
    question_id \in DOMAIN questions
    /\ questions[question_id].test_id = test_id

question_image_urls(Q) ==
    {questions[q].image_url : q \in Q}
    \cup {options[o].image_url : o \in answer_options(Q)}

\* ---------------------------------------- TeacherServices.delete_question
delete_question_test(p, in) ==
    /\ proc[p].pc = "idle"
    /\ \E c \in in.teachers, t \in in.tests, q \in in.questions :
         LET r == [Idle EXCEPT !.op = "delete_question", !.teacher = c,
                               !.test = t, !.question = q]
         IN proc' = [proc EXCEPT ![p] =
                IF get_test_by_id(t, c) THEN [r EXCEPT !.pc = "dq_load"]
                ELSE Done(r, "NotFoundUuid")]
    /\ UNCHANGED <<authVars, outerVars, catalogVars, engineVars>>

delete_question_load(p) ==
    /\ proc[p].pc = "dq_load"
    /\ IF get_question_by_id(proc[p].test, proc[p].question)
       THEN /\ proc' = [proc EXCEPT ![p] = [@ EXCEPT !.pc = "dq_delete"]]
            /\ deleted_objects' =
                  deleted_objects
                  \cup delete_files(question_image_urls({proc[p].question}))
       ELSE /\ proc' = [proc EXCEPT ![p] = Done(@, "NotFoundUuid")]
            /\ deleted_objects' = deleted_objects
    /\ UNCHANGED <<authVars, entities, catalogVars, engineVars>>

delete_question_by_id(p) ==
    /\ proc[p].pc = "dq_delete"
    /\ IF get_question_by_id(proc[p].test, proc[p].question)
       THEN /\ Cascade({}, {proc[p].question}, {}, {})
            /\ proc' = [proc EXCEPT ![p] = Done(@, "ok")]
       ELSE /\ proc' = [proc EXCEPT ![p] = Done(@, "NotFoundUuid")]
            /\ UNCHANGED <<catalogVars, attempts, answers>>
    /\ UNCHANGED <<authVars, outerVars, nextId>>

\* ----------------------- TeacherServices.delete_all_questions_by_test_id
delete_all_questions_load(p, in) ==
    /\ proc[p].pc = "idle"
    /\ \E c \in in.teachers, t \in in.tests :
         LET r == [Idle EXCEPT !.op = "delete_all_questions_by_test_id",
                               !.teacher = c, !.test = t]
         IN IF get_test_by_id(t, c)
            THEN /\ proc' = [proc EXCEPT ![p] = [r EXCEPT !.pc = "daq_delete"]]
                 /\ deleted_objects' =
                       deleted_objects
                       \cup delete_files(question_image_urls(test_questions(t)))
            ELSE /\ proc' = [proc EXCEPT ![p] = Done(r, "NotFoundUuid")]
                 /\ deleted_objects' = deleted_objects
    /\ UNCHANGED <<authVars, entities, catalogVars, engineVars>>

delete_all_questions_by_test_id(p) ==
    /\ proc[p].pc = "daq_delete"
    /\ Cascade({}, test_questions(proc[p].test), {}, {})
    /\ proc' = [proc EXCEPT ![p] = Done(@, "ok")]
    /\ UNCHANGED <<authVars, outerVars, nextId>>

\* ----------------------------- TeacherServices.edit_question_with_answers
\* the payload: image_url of the question (image_set says that the key is in
\* the payload), answer_options (options_set likewise; an item is a record
\* of answer_id, is_correct, image_set, image_url) and answer_ids_to_delete
NoAnswerOptions == [options_set |-> FALSE, items |-> <<>>]
NoQuestionImage == [image_set |-> FALSE, image |-> NoImage]

edit_question_test(p, in) ==
    /\ proc[p].pc = "idle"
    /\ \E c \in in.teachers, t \in in.tests, q \in in.questions,
          ids \in in.answer_ids, ao \in in.answer_options,
          qi \in in.question_images :
         LET r == [Idle EXCEPT !.op = "edit_question_with_answers",
                               !.teacher = c, !.test = t, !.question = q,
                               !.answer_ids = ids,
                               !.image_set = qi.image_set,
                               !.image = qi.image,
                               !.options_set = ao.options_set,
                               !.answer_options = ao.items]
         IN proc' = [proc EXCEPT ![p] =
                IF get_test_by_id(t, c) THEN [r EXCEPT !.pc = "eq_load"]
                ELSE Done(r, "NotFoundUuid")]
    /\ UNCHANGED <<authVars, outerVars, catalogVars, engineVars>>

\* the images the service deletes after loading the question: the question's
\* own when the payload replaces it, and those of the answers of this
\* question (current_answers_map) whose item replaces the image
edit_question_replaced_images(r) ==
    LET q == r.question
        own == IF r.image_set /\ questions[q].image_url # NoImage
                  /\ r.image # questions[q].image_url
               THEN {questions[q].image_url} ELSE {}
        items == {r.answer_options[i] : i \in DOMAIN r.answer_options}
    IN own \cup {options[it.answer_id].image_url :
                   it \in {x \in items :
                              /\ x.answer_id \in answer_options({q})
                              /\ x.image_set
                              /\ options[x.answer_id].image_url # NoImage
                              /\ x.image # options[x.answer_id].image_url}}

edit_question_load(p) ==
    /\ proc[p].pc = "eq_load"
    /\ IF get_question_by_id(proc[p].test, proc[p].question)
       THEN /\ proc' = [proc EXCEPT ![p] =
                  [@ EXCEPT !.pc = IF proc[p].answer_ids # {}
                                   THEN "eq_answers" ELSE "eq_commit"]]
            /\ deleted_objects' =
                  deleted_objects
                  \cup delete_files(edit_question_replaced_images(proc[p]))
       ELSE /\ proc' = [proc EXCEPT ![p] = Done(@, "NotFoundUuid")]
            /\ deleted_objects' = deleted_objects
    /\ UNCHANGED <<authVars, entities, catalogVars, engineVars>>

\* get_answers_by_ids: AnswerOption.answer_id IN (...), of any question
edit_question_answers(p) ==
    /\ proc[p].pc = "eq_answers"
    /\ proc' = [proc EXCEPT ![p] = [@ EXCEPT !.pc = "eq_commit"]]
    /\ deleted_objects' =
          deleted_objects
          \cup delete_files({options[o].image_url :
                                o \in proc[p].answer_ids \cap DOMAIN options})
    /\ UNCHANGED <<authVars, entities, catalogVars, engineVars>>

\* TeacherRepository.edit_question_with_answers up to its commit.
\* question_data is the payload without answer_ids_to_delete: it still holds
\* the key answer_options when the payload does (the service reads it with
\* get, not pop), and update(Question).values(answer_options=...) names a
\* relationship, not a column: the statement is refused and the request
\* ends with an unhandled error before anything is written.  Without that
\* key: UPDATE of the question (no row: None, no commit), DELETE of the
\* answers by id alone, commit.
edit_question_with_answers(p) ==
    /\ proc[p].pc = "eq_commit"
    /\ LET q == proc[p].question
       IN IF proc[p].options_set
          THEN /\ proc' = [proc EXCEPT ![p] = Done(@, "500")]
               /\ UNCHANGED <<catalogVars, attempts, answers>>
          ELSE IF proc[p].image_set
                  /\ ~get_question_by_id(proc[p].test, q)
          THEN /\ proc' = [proc EXCEPT ![p] = Done(@, "NotFoundUuid")]
               /\ UNCHANGED <<catalogVars, attempts, answers>>
          ELSE /\ proc' = [proc EXCEPT ![p] = [@ EXCEPT !.pc = "eq_final"]]
               /\ tests' = tests
               /\ questions' =
                     IF proc[p].image_set
                     THEN [questions EXCEPT ![q].image_url = proc[p].image]
                     ELSE questions
               /\ LET O == proc[p].answer_ids \cap DOMAIN options
                  IN /\ options' = Restrict(options, DOMAIN options \ O)
                     /\ answers' =
                           [a \in DOMAIN answers |->
                              [answers[a] EXCEPT !.chosen_options = @ \ O]]
               /\ attempts' = attempts
    /\ UNCHANGED <<authVars, outerVars, nextId>>

\* the final SELECT of the question, by question_id alone
edit_question_final(p) ==
    /\ proc[p].pc = "eq_final"
    /\ proc' = [proc EXCEPT ![p] =
            Done(@, IF proc[p].question \in DOMAIN questions
                    THEN "ok" ELSE "NotFoundUuid")]
    /\ UNCHANGED <<authVars, outerVars, catalogVars, engineVars>>

\* ------------------------------------------- AnalyticsAggregator
\* a text is the sequence of its characters; the empty sequence is None
NoQuery == <<>>

lower(text) ==
    [i \in DOMAIN text |->
        IF text[i] = "A" THEN "a" ELSE IF text[i] = "B" THEN "b" ELSE text[i]]

\* text LIKE '%pattern%'
like(text, pattern) ==
    \E i \in 0..(Len(text) - Len(pattern)) :
        SubSeq(text, i + 1, i + Len(pattern)) = pattern

AddFraction(x, y) == Fraction(x[1] * y[2] + y[1] * x[2], x[2] * y[2])

RECURSIVE SumScores(_)
SumScores(A) ==
    IF A = {} THEN Fraction(0, 1)
    ELSE LET a == CHOOSE b \in A : TRUE
         IN AddFraction(attempts[a].score, SumScores(A \ {a}))

\* func.avg(TestAttempt.score): the mean of the non-null scores, or NULL
func_avg(A) ==
    LET N == {a \in A : attempts[a].score # NullScore}
    IN IF N = {} THEN NullScore
       ELSE LET t == SumScores(N) IN Fraction(t[1], t[2] * Cardinality(N))

\* variant: the status filter is missing
analytics_attempts_any_status(test_id, teacher_id) ==
    {a \in DOMAIN attempts :
        /\ attempts[a].test_id = test_id
        /\ test_id \in DOMAIN tests
        /\ tests[test_id].teacher_id = teacher_id}

\* TestAttempt JOIN Test WHERE test_id, teacher_id, status = COMPLETED
analytics_attempts(test_id, teacher_id) ==
    {a \in DOMAIN attempts :
        /\ attempts[a].test_id = test_id
        /\ test_id \in DOMAIN tests
        /\ tests[test_id].teacher_id = teacher_id
        /\ attempts[a].status = COMPLETED}

\* StudentAnswer JOIN Question JOIN TestAttempt JOIN Test, filtered
analytics_answers(test_id, teacher_id, search_query) ==
    {i \in DOMAIN answers :
        /\ answers[i].attempt_id \in analytics_attempts(test_id, teacher_id)
        /\ answers[i].question_id \in DOMAIN questions
        /\ search_query # NoQuery =>
              like(lower(questions[answers[i].question_id].question_text),
                   lower(search_query))}

\* GROUP BY question: correct_answer_percentage of every question that has
\* a row in the join
question_analytics_data(test_id, teacher_id, search_query) ==
    LET rows == analytics_answers(test_id, teacher_id, search_query)
    IN [q \in {answers[i].question_id : i \in rows} |->
          LET total_answers ==
                  Cardinality({i \in rows : answers[i].question_id = q})
              correct_answers ==
                  Cardinality({i \in rows : answers[i].question_id = q
                                            /\ answers[i].is_correct})
          IN IF total_answers > 0
             THEN Fraction(correct_answers * 100, total_answers)
             ELSE Fraction(0, 1)]

\* ------------------------------------ TeacherServices.get_test_analytics
get_test_analytics_attempts(p, in) ==
    /\ proc[p].pc = "idle"
    /\ \E c \in in.teachers, t \in in.tests, s \in in.queries :
         LET r == [Idle EXCEPT !.op = "get_test_analytics", !.teacher = c,
                               !.test = t, !.search_query = s]
             A == analytics_attempts(t, c)
         IN proc' = [proc EXCEPT ![p] =
                IF Cardinality(A) = 0
                THEN Done(r, "ok")
                ELSE [r EXCEPT !.pc = "ga_questions",
                               !.total_attempts = Cardinality(A),
                               !.average_score = func_avg(A)]]
    /\ UNCHANGED <<authVars, outerVars, catalogVars, engineVars>>

get_test_analytics_questions(p) ==
    /\ proc[p].pc = "ga_questions"
    /\ proc' = [proc EXCEPT ![p] =
            Done([@ EXCEPT !.question_analytics =
                      question_analytics_data(proc[p].test, proc[p].teacher,
                                              proc[p].search_query)],
                 "ok")]
    /\ UNCHANGED <<authVars, outerVars, catalogVars, engineVars>>

\* -------------------------------------- TeacherServices.get_test_results
\* all attempts of the test fit the first page
get_test_results(p, in) ==
    /\ proc[p].pc = "idle"
    /\ \E c \in in.teachers, t \in in.tests :
         LET r == [Idle EXCEPT !.op = "get_test_results", !.teacher = c,
                               !.test = t]
         IN proc' = [proc EXCEPT ![p] =
                Done([r EXCEPT !.results =
                          analytics_attempts_any_status(t, c)], "ok")]
    /\ UNCHANGED <<authVars, outerVars, catalogVars, engineVars>>

\* ------------------------------------- AdminServices.delete_entity_by_id
delete_entity_by_id(p, in) ==
    /\ proc[p].pc = "idle"
    /\ \E e \in in.entities :
         LET r == [Idle EXCEPT !.op = "delete_entity_by_id", !.entity = e]
         IN IF e \in DOMAIN entities
            THEN /\ entities' = Restrict(entities, DOMAIN entities \ {e})
                 /\ role_requests' =
                       Restrict(role_requests,
                                {r2 \in DOMAIN role_requests :
                                   role_requests[r2].entity_id # e})
                 /\ Cascade(tests_of(e), {}, {}, attempts_of(e))
                 /\ proc' = [proc EXCEPT ![p] = Done(r, "ok")]
            ELSE /\ proc' = [proc EXCEPT ![p] = Done(r, "404")]
                 /\ UNCHANGED <<role_requests, entities, catalogVars,
                                attempts, answers>>
    /\ UNCHANGED <<tokens, deleted_objects, nextId>>

\* ------------------------------------------------- auth/dependencies.py
\* variant: no exception for the admin
restrict_to_entity_same_role(payload, role_entity) ==
    payload[2] = role_entity

\* an access token payload is <<sub, role>>; TRUE lets the request through,
\* FALSE is the 403
restrict_to_entity(payload, role_entity) ==
    LET role == payload[2]
    IN IF role = "admin" THEN TRUE
       ELSE IF role # role_entity THEN FALSE
       ELSE TRUE

\* the guard of a router, resolved for a request that carries a token
Restricted(p, in, name, role_entity) ==
    /\ proc[p].pc = "idle"
    /\ \E payload \in tokens :
         proc' = [proc EXCEPT ![p] =
            Done([Idle EXCEPT !.op = name, !.payload = payload],
                 IF restrict_to_entity(payload, role_entity)
                 THEN "pass" ELSE "403")]
    /\ UNCHANGED <<authVars, outerVars, catalogVars, engineVars>>

restrict_to_student(p, in) == Restricted(p, in, "restrict_to_student", STUDENT)

restrict_to_teacher(p, in) == Restricted(p, in, "restrict_to_teacher", TEACHER)

\* the guard of the admin router
restrict_to_specialist(p, in) ==
    Restricted(p, in, "restrict_to_specialist", ADMIN)

\* ------------------------------------------------ RoleRequestRepository
limit == 100

\* the ids of the `limit` newest requests with the status
list_requests(status) ==
    LET S == {r \in DOMAIN role_requests : role_requests[r].status = status}
    IN {r \in S : Cardinality({x \in S : x > r}) < limit}

\* RoleRequestRepository.create; the INSERT needs the entity row
create(p, entity_id, requested_role, r) ==
    IF entity_id \notin DOMAIN entities
    THEN /\ proc' = [proc EXCEPT ![p] = Done(r, "500")]
         /\ UNCHANGED <<role_requests, nextId>>
    ELSE /\ nextId.request <= MaxRequests
         /\ role_requests' =
               (nextId.request :> [entity_id |-> entity_id,
                                   requested_role |-> requested_role,
                                   status |-> PENDING])
               @@ role_requests
         /\ nextId' = [nextId EXCEPT !.request = @ + 1]
         /\ proc' = [proc EXCEPT ![p] =
                Done([r EXCEPT !.request = nextId.request], "ok")]

\* ------------------------------------------ AuthServices.register_entity
\* the new account gets the next free id and the role student
register_entity(p, in) ==
    /\ proc[p].pc = "idle"
    /\ \E e \in in.registrants \ DOMAIN entities, role \in in.roles :
         /\ entities' = (e :> [role |-> STUDENT]) @@ entities
         /\ proc' = [proc EXCEPT ![p] =
                LET r == [Idle EXCEPT !.op = "register_entity",
                                      !.entity = e, !.role = role]
                IN IF role # STUDENT THEN [r EXCEPT !.pc = "re_request"]
                   ELSE Done(r, "ok")]
    /\ UNCHANGED <<authVars, deleted_objects, catalogVars, engineVars>>

register_entity_request(p) ==
    /\ proc[p].pc = "re_request"
    /\ create(p, proc[p].entity, proc[p].role, proc[p])
    /\ UNCHANGED <<tokens, outerVars, catalogVars, attempts, answers>>

\* -------------------------------------- AuthServices.authenticate_entity
\* the login is the id of the account; the role is read with the account
authenticate_entity(p, in) ==
    /\ proc[p].pc = "idle"
    /\ \E e \in in.logins, pw \in in.passwords :
         proc' = [proc EXCEPT ![p] =
            [Idle EXCEPT !.op = "login", !.pc = "au_pending", !.entity = e,
                         !.password = pw,
                         !.role = IF e \in DOMAIN entities
                                  THEN entities[e].role ELSE "none"]]
    /\ UNCHANGED <<authVars, outerVars, catalogVars, engineVars>>

\* auth_entity.id of an account that was not found is an AttributeError
login(p) ==
    /\ proc[p].pc = "au_pending"
    /\ LET pending == list_requests(PENDING)
           e == proc[p].entity
           res == IF proc[p].role = "none"
                  THEN IF pending # {} THEN "500" ELSE "401"
                  ELSE IF \E r \in pending : role_requests[r].entity_id = e
                  THEN "403"
                  ELSE IF ~proc[p].password THEN "401"
                  ELSE "ok"
       IN /\ proc' = [proc EXCEPT ![p] = Done(@, res)]
          /\ tokens' = IF res = "ok" THEN tokens \cup {<<e, proc[p].role>>}
                       ELSE tokens
    /\ UNCHANGED <<role_requests, outerVars, catalogVars, engineVars>>

\* ---------------------------------------- RoleRequestService.create_request
create_request_check(p, in) ==
    /\ proc[p].pc = "idle"
    /\ \E payload \in tokens, role \in in.roles :
         LET r == [Idle EXCEPT !.op = "create_request", !.payload = payload,
                               !.entity = payload[1], !.role = role]
         IN proc' = [proc EXCEPT ![p] =
                IF \E q \in list_requests(PENDING) :
                      role_requests[q].entity_id = payload[1]
                THEN Done(r, "Active request already exists")
                ELSE [r EXCEPT !.pc = "cr_create"]]
    /\ UNCHANGED <<authVars, outerVars, catalogVars, engineVars>>

create_request(p) ==
    /\ proc[p].pc = "cr_create"
    /\ create(p, proc[p].entity, proc[p].role, proc[p])
    /\ UNCHANGED <<tokens, outerVars, catalogVars, attempts, answers>>

\* -------------------- RoleRequestService.approve_request / reject_request
\* the admin guard, then get_request and the status check; the request is
\* kept as it was read
get_request(p, in, name) ==
    /\ proc[p].pc = "idle"
    /\ \E payload \in tokens, id \in in.requests :
         LET r == [Idle EXCEPT !.op = name, !.payload = payload,
                               !.request = id]
         IN proc' = [proc EXCEPT ![p] =
                IF ~restrict_to_entity(payload, ADMIN) THEN Done(r, "403")
                ELSE IF id \notin DOMAIN role_requests
                THEN Done(r, "Request not found")
                ELSE IF role_requests[id].status # PENDING
                THEN Done(r, "Request already processed")
                ELSE [r EXCEPT !.pc = IF name = "approve_request"
                                      THEN "ap_role" ELSE "rj_status",
                               !.entity = role_requests[id].entity_id,
                               !.role = role_requests[id].requested_role]]
    /\ UNCHANGED <<authVars, outerVars, catalogVars, engineVars>>

approve_request_get(p, in) == get_request(p, in, "approve_request")

reject_request_get(p, in) == get_request(p, in, "reject_request")

\* auth_entity.role is an enum of Role: specialist is not a value of it and
\* the UPDATE fails
update_role(p) ==
    /\ proc[p].pc = "ap_role"
    /\ IF proc[p].role \notin Role
       THEN /\ proc' = [proc EXCEPT ![p] = Done(@, "500")]
            /\ entities' = entities
       ELSE /\ proc' = [proc EXCEPT ![p] = [@ EXCEPT !.pc = "ap_status"]]
            /\ entities' =
                  IF proc[p].entity \in DOMAIN entities
                  THEN [entities EXCEPT ![proc[p].entity].role = proc[p].role]
                  ELSE entities
    /\ UNCHANGED <<authVars, deleted_objects, catalogVars, engineVars>>

update_status(p, pc, status) ==
    /\ proc[p].pc = pc
    /\ proc' = [proc EXCEPT ![p] = Done(@, "ok")]
    /\ role_requests' =
          IF proc[p].request \in DOMAIN role_requests
          THEN [role_requests EXCEPT ![proc[p].request].status = status]
          ELSE role_requests
    /\ UNCHANGED <<tokens, outerVars, catalogVars, engineVars>>

approve_request(p) == update_status(p, "ap_status", APPROVED)

reject_request(p) == update_status(p, "rj_status", REJECTED)

\* the response is sent and the request slot is free again
Return(p) ==
    /\ proc[p].pc = "done"
    /\ proc' = [proc EXCEPT ![p] = Idle]
    /\ UNCHANGED <<authVars, outerVars, catalogVars, engineVars>>

\* --------------------------------------------------------------- system
SmallCatalog ==
    /\ tests = [t \in TestIds |->
                  [teacher_id |-> IF t = "t1" THEN 10 ELSE 11,
                   status |-> PUBLISHED,
                   title |-> IF t = "t1" THEN "A" ELSE "B",
                   image_url |-> NoImage]]
    /\ questions = ("q1" :> [test_id |-> "t1", points |-> 2,
                             question_text |-> <<"A", "b">>,
                             image_url |-> NoImage])
                   @@ ("q2" :> [test_id |-> "t1", points |-> 1,
                                question_text |-> <<"c">>,
                                image_url |-> NoImage])
    /\ options = ("o1" :> [question_id |-> "q1", is_correct |-> TRUE,
                           image_url |-> NoImage])

\* the accounts exist, nothing has been deleted from the object storage
Outside ==
    /\ entities = [e \in Students \cup Teachers |->
                     [role |-> IF e \in Students THEN STUDENT ELSE TEACHER]]
    /\ deleted_objects = {}
    /\ role_requests = <<>>
    /\ tokens = {}

EmptyEngine ==
    /\ attempts = <<>>
    /\ answers = <<>>
    /\ nextId = [attempt |-> 1, answer |-> 1, test |-> 1, question |-> 1,
                 request |-> 1]
    /\ proc = [p \in Procs |-> Idle]

Init == SmallCatalog /\ EmptyEngine /\ Outside

\* the requests clients send: every argument ranges over these sets
Requests ==
    [students |-> {1}, tests |-> {"t1"}, questions |-> {"q1"},
     chosen |-> {<<>>, <<"o1">>}]

Step(p, in) ==
    \/ start_test_check(p, in)
    \/ start_test_lookup(p)
    \/ start_test_create(p)
    \/ submit_answer_load(p, in)
    \/ submit_answer_evaluate(p)
    \/ save_student_answer_select(p)
    \/ save_student_answer_commit(p)
    \/ finish_test_load(p, in)
    \/ finish_test_update(p)
    \/ Return(p)

Next == \E p \in Procs : Step(p, Requests)

Spec == Init /\ [][Next]_vars

\* ------------------------------------- two students, concurrently
\* each student has one request at a time, student s in slot s
PairRequests(s) ==
    [students |-> {s}, tests |-> {"t1"}, questions |-> {"q1"},
     chosen |-> {<<"o1">>}]

NextPair == \E p \in Procs : Step(p, PairRequests(p))

SpecPair == Init /\ [][NextPair]_vars

\* ----------------------------- analytics over the attempts, in turn
AnalyticsRequests ==
    [students |-> {1}, tests |-> TestIds, questions |-> {"q1", "q2"},
     chosen |-> {<<>>, <<"o1">>}, teachers |-> Teachers,
     queries |-> {NoQuery, <<"A">>}]

AnalyticsStep(p, in) ==
    \/ get_test_analytics_attempts(p, in)
    \/ get_test_analytics_questions(p)
    \/ get_test_results(p, in)

NextAnalytics ==
    Step(1, AnalyticsRequests) \/ AnalyticsStep(1, AnalyticsRequests)

SpecAnalytics == Init /\ [][NextAnalytics]_vars

\* ------------------------------------------- authoring, concurrently
k1 == <<"tests", "k1">>
k2 == <<"tests", "k2">>
k3 == <<"tests", "k3">>
k4 == <<"tests", "k4">>
ForeignUrl == <<"cdn", "x">>

\* t1 of teacher 10 holds q1 with options o1 and o2; the test, the question
\* and o1 hold uploaded images, o2 an image stored elsewhere
AuthorCatalog ==
    /\ tests = ("t1" :> [teacher_id |-> 10, status |-> DRAFT, title |-> "A",
                         image_url |-> get_public_url(k1)])
    /\ questions = ("q1" :> [test_id |-> "t1", points |-> 1,
                             question_text |-> <<"c">>,
                             image_url |-> get_public_url(k2)])
    /\ options = ("o1" :> [question_id |-> "q1", is_correct |-> TRUE,
                           image_url |-> get_public_url(k3)])
                 @@ ("o2" :> [question_id |-> "q1", is_correct |-> FALSE,
                              image_url |-> ForeignUrl])

\* ---- titles: one teacher request at a time
TitleRequests ==
    [teachers |-> Teachers, tests |-> {"t1", "t3"}, titles |-> {"A", "B"},
     images |-> {NoImage, get_public_url(k4)}]

InitAuthor == AuthorCatalog /\ EmptyEngine /\ Outside

TitleStep(p, in) ==
    \/ create_test(p, in)
    \/ edit_test_load(p, in)
    \/ edit_test_update(p)
    \/ delete_test_load(p, in)
    \/ delete_test_by_id(p)
    \/ Return(p)

NextTitles == TitleStep(1, TitleRequests)

SpecTitles == InitAuthor /\ [][NextTitles]_vars

\* ---- copies: one teacher request at a time, duplicate_test beside the
\* deletion of a test and the removal of its image
CopyRequests ==
    [teachers |-> Teachers, tests |-> {"t1", "t3"}, titles |-> {},
     images |-> {NoImage}]

CopyStep(p, in) ==
    \/ duplicate_test_load(p, in)
    \/ duplicate_test_title(p)
    \/ add_test(p)
    \/ add_test_fetch(p)
    \/ edit_test_load(p, in)
    \/ edit_test_update(p)
    \/ delete_test_load(p, in)
    \/ delete_test_by_id(p)
    \/ Return(p)

NextCopy == CopyStep(1, CopyRequests)

SpecCopy == InitAuthor /\ [][NextCopy]_vars

\* ---- deletions: a teacher's deletion requests in the first slot, beside
\* a new question of the same teacher and the admin's deletion of accounts
CleanupRequests ==
    [teachers |-> Teachers, tests |-> {"t1"}, questions |-> {"q1", "q4"},
     answer_ids |-> (SUBSET {"o1", "o2"}) \ {{}},
     answer_options |-> {NoAnswerOptions},
     question_images |-> {NoQuestionImage}]

CleanupStep(p, in) ==
    \/ delete_test_load(p, in)
    \/ delete_test_by_id(p)
    \/ delete_all_tests_load(p, in)
    \/ delete_all_tests(p)
    \/ delete_question_test(p, in)
    \/ delete_question_load(p)
    \/ delete_question_by_id(p)
    \/ delete_all_questions_load(p, in)
    \/ delete_all_questions_by_test_id(p)
    \/ edit_question_test(p, in)
    \/ edit_question_load(p)
    \/ edit_question_answers(p)
    \/ edit_question_with_answers(p)
    \/ edit_question_final(p)
    \/ Return(p)

BesideRequests ==
    [teachers |-> {10}, tests |-> {"t1"}, images |-> {get_public_url(k4)},
     entities |-> {10}]

BesideStep(p, in) ==
    \/ create_question_check(p, in)
    \/ create_question_with_answers(p)
    \/ delete_entity_by_id(p, in)
    \/ Return(p)

NextCleanup ==
    \/ CleanupStep(1, CleanupRequests)
    \/ BesideStep(2, BesideRequests)

SpecCleanup == InitAuthor /\ [][NextCleanup]_vars

\* ------------------------------------------------ accounts, in turn
\* a student, a teacher and an admin, nobody logged in
Accounts ==
    /\ entities = (1 :> [role |-> STUDENT]) @@ (10 :> [role |-> TEACHER])
                  @@ (20 :> [role |-> ADMIN])
    /\ deleted_objects = {}
    /\ role_requests = <<>>
    /\ tokens = {}

AuthRequests ==
    [registrants |-> {2}, roles |-> {TEACHER, SPECIALIST},
     logins |-> {1, 2, 10, 20}, passwords |-> {TRUE}, requests |-> {1}]

InitAuth == SmallCatalog /\ EmptyEngine /\ Accounts

AuthStep(p, in) ==
    \/ restrict_to_student(p, in)
    \/ restrict_to_teacher(p, in)
    \/ restrict_to_specialist(p, in)
    \/ register_entity(p, in)
    \/ register_entity_request(p)
    \/ authenticate_entity(p, in)
    \/ login(p)
    \/ create_request_check(p, in)
    \/ create_request(p)
    \/ approve_request_get(p, in)
    \/ update_role(p)
    \/ approve_request(p)
    \/ reject_request_get(p, in)
    \/ reject_request(p)
    \/ Return(p)

NextAuth == AuthStep(1, AuthRequests)

SpecAuth == InitAuth /\ [][NextAuth]_vars

\* ---------------------------------------- role requests, concurrently
\* student 1 and admin 20 hold the tokens of their logins
LoggedIn ==
    /\ entities = (1 :> [role |-> STUDENT]) @@ (20 :> [role |-> ADMIN])
    /\ deleted_objects = {}
    /\ role_requests = <<>>
    /\ tokens = {<<1, STUDENT>>, <<20, ADMIN>>}

RoleRequests ==
    [roles |-> {TEACHER}, logins |-> {1}, passwords |-> {TRUE},
     requests |-> {1}]

InitRoles == SmallCatalog /\ EmptyEngine /\ LoggedIn

RoleStep(p, in) ==
    \/ authenticate_entity(p, in)
    \/ login(p)
    \/ create_request_check(p, in)
    \/ create_request(p)
    \/ approve_request_get(p, in)
    \/ update_role(p)
    \/ approve_request(p)
    \/ reject_request_get(p, in)
    \/ reject_request(p)
    \/ Return(p)

NextRoles == \E p \in Procs : RoleStep(p, RoleRequests)

SpecRoles == InitRoles /\ [][NextRoles]_vars

\* ------------------------------ attempts while a question is edited
\* t1 of teacher 10 holds q1 with the correct option o1 and the wrong option
\* o2; t2 of teacher 11 holds q3 with option o9
EditCatalog ==
    /\ tests = [t \in TestIds |->
                  [teacher_id |-> IF t = "t1" THEN 10 ELSE 11,
                   status |-> PUBLISHED,
                   title |-> IF t = "t1" THEN "A" ELSE "B",
                   image_url |-> NoImage]]
    /\ questions = ("q1" :> [test_id |-> "t1", points |-> 2,
                             question_text |-> <<"c">>,
                             image_url |-> get_public_url(k2)])
                   @@ ("q3" :> [test_id |-> "t2", points |-> 1,
                                question_text |-> <<"c">>,
                                image_url |-> NoImage])
    /\ options = ("o1" :> [question_id |-> "q1", is_correct |-> TRUE,
                           image_url |-> get_public_url(k1)])
                 @@ ("o2" :> [question_id |-> "q1", is_correct |-> FALSE,
                              image_url |-> NoImage])
                 @@ ("o9" :> [question_id |-> "q3", is_correct |-> TRUE,
                              image_url |-> get_public_url(k3)])

EditRequests ==
    [students |-> {1}, tests |-> {"t1"}, questions |-> {"q1"},
     chosen |-> {<<>>, <<"o1">>},
     teachers |-> {10},
     answer_ids |-> {{}, {"o1"}, {"o9"}},
     answer_options |->
        {NoAnswerOptions,
         [options_set |-> TRUE,
          items |-> <<[answer_id |-> "o1", is_correct |-> FALSE,
                       image_set |-> TRUE, image |-> NoImage]>>]},
     question_images |->
        {NoQuestionImage, [image_set |-> TRUE, image |-> get_public_url(k4)]}]

InitEdit == EditCatalog /\ EmptyEngine /\ Outside

EditStep(p, in) ==
    \/ edit_question_test(p, in)
    \/ edit_question_load(p)
    \/ edit_question_answers(p)
    \/ edit_question_with_answers(p)
    \/ edit_question_final(p)
    \/ Return(p)

NextEdit == Step(1, EditRequests) \/ EditStep(2, EditRequests)

SpecEdit == InitEdit /\ [][NextEdit]_vars

\* ------------------------------- attempts while the catalog changes
\* slot 1 carries the student's requests, slot 2 those of the owning teacher
\* and of the admin; t2 belongs to another teacher and stays a DRAFT
LifeCatalog ==
    /\ tests = [t \in TestIds |->
                  [teacher_id |-> IF t = "t1" THEN 10 ELSE 11,
                   status |-> IF t = "t1" THEN PUBLISHED ELSE DRAFT,
                   title |-> IF t = "t1" THEN "A" ELSE "B",
                   image_url |-> NoImage]]
    /\ questions = ("q1" :> [test_id |-> "t1", points |-> 2,
                             question_text |-> <<"A", "b">>,
                             image_url |-> NoImage])
    /\ options = ("o1" :> [question_id |-> "q1", is_correct |-> TRUE,
                           image_url |-> NoImage])

LifeRequests ==
    [students |-> {1}, tests |-> TestIds, questions |-> {"q1"},
     chosen |-> {<<"o1">>}, teachers |-> {10}, entities |-> {1, 10}]

InitLife == LifeCatalog /\ EmptyEngine /\ Outside

LifecycleStep(p, in) ==
    \/ update_test_status(p, in)
    \/ delete_test_load(p, in)
    \/ delete_test_by_id(p)
    \/ delete_entity_by_id(p, in)
    \/ Return(p)

NextLife == Step(1, LifeRequests) \/ LifecycleStep(2, LifeRequests)

SpecLife == InitLife /\ [][NextLife]_vars

\* ------------------------------------------- one request at a time
\* catalogs the authoring side can have built: t1 holds q1, q2, q3 with one
\* of the point vectors, q1 holds o1 and possibly o2, with any flags (one
\* option set goes with the all-zero points); t2 holds no question
PointChoices == {<<2, 3, 5>>, <<0, 0, 0>>}
OptionChoices1 ==
    [question_id |-> "q1", is_correct |-> TRUE, image_url |-> NoImage]
OptionChoices ==
    {OptionChoices1,
     [question_id |-> "q1", is_correct |-> FALSE, image_url |-> NoImage]}

SeqCatalog ==
    /\ tests = [t \in TestIds |->
                  [teacher_id |-> IF t = "t1" THEN 10 ELSE 11,
                   status |-> PUBLISHED,
                   title |-> IF t = "t1" THEN "A" ELSE "B",
                   image_url |-> NoImage]]
    /\ \E pts \in PointChoices :
         /\ questions =
                [q \in QuestionIds |->
                    [test_id |-> "t1",
                     points |-> pts[IF q = "q1" THEN 1
                                    ELSE IF q = "q2" THEN 2 ELSE 3],
                     question_text |-> IF q = "q1" THEN <<"A", "b">>
                                       ELSE <<"c">>,
                     image_url |-> NoImage]]
         /\ \E D \in {{"o1"}, {"o1", "o2"}} :
                /\ options \in [D -> OptionChoices]
                /\ pts[1] = 0 => options = [o \in {"o1"} |-> OptionChoices1]

SeqRequests ==
    [students |-> {1}, tests |-> TestIds, questions |-> {"q1", "q2"},
     chosen |-> ChosenLists]

InitSeq == SeqCatalog /\ EmptyEngine /\ Outside

NextSeq == Step(1, SeqRequests)

SpecSeq == InitSeq /\ [][NextSeq]_vars
\* ================================================================ claims
InProgressOf(s) ==
    {a \in DOMAIN attempts :
        attempts[a].student_id = s /\ attempts[a].status = "IN_PROGRESS"}

RowsOf(a) ==
    [i \in {j \in DOMAIN answers : answers[j].attempt_id = a} |-> answers[i]]

CorrectSet(q) ==
    {o \in DOMAIN options :
        options[o].question_id = q /\ options[o].is_correct = TRUE}

Submitted(r) ==
    [attempt_id |-> r.attempt, question_id |-> r.question,
     is_correct |-> r.is_correct,
     chosen_options |-> {r.chosen[k] : k \in DOMAIN r.chosen} \cap DOMAIN options]

\* C1: a start_test that begins while its student has an IN_PROGRESS attempt
\* ends at once with ActiveTestAttemptExists and leaves the attempts as they
\* were.
C1_ActiveAttemptBlocksStart ==
    [][\A p \in Procs :
        (/\ proc[p].pc = "idle"
         /\ proc'[p].op = "start_test"
         /\ InProgressOf(proc'[p].student) # {})
        => (/\ proc'[p].pc = "done"
            /\ proc'[p].result = "ActiveTestAttemptExists"
            /\ attempts' = attempts)]_vars

C1_Witness ==
    \E p \in Procs :
        /\ proc[p].pc = "done"
        /\ proc[p].op = "start_test"
        /\ proc[p].result = "ActiveTestAttemptExists"
        /\ InProgressOf(proc[p].student) # {}

\* C2: in every reachable state a student has at most one IN_PROGRESS attempt,
\* over all tests, also when start_test calls interleave.
C2_SingleActiveAttempt ==
    \A s \in Students : Cardinality(InProgressOf(s)) <= 1

\* C3: the status of an attempt changes only from IN_PROGRESS to COMPLETED,
\* and a COMPLETED attempt stays COMPLETED.
C3_StatusOnlyCompletes ==
    [][\A a \in DOMAIN attempts :
        a \in DOMAIN attempts' =>
            /\ attempts'[a].status # attempts[a].status =>
                  (/\ attempts[a].status = "IN_PROGRESS"
                   /\ attempts'[a].status = "COMPLETED")
            /\ attempts[a].status = "COMPLETED" =>
                  attempts'[a].status = "COMPLETED"]_vars

C3_Witness ==
    \E a, b \in DOMAIN attempts :
        /\ a < b
        /\ attempts[a].student_id = attempts[b].student_id
        /\ attempts[a].test_id = attempts[b].test_id
        /\ attempts[a].status = "COMPLETED"
        /\ attempts[b].status = "IN_PROGRESS"

\* C4: a submit_answer or finish_test that begins on a COMPLETED attempt ends
\* at once with AttemptAlreadyFinished; attempts (status, score) and
\* StudentAnswers are as before.
C4_FinishedAttemptRejectsCalls ==
    [][\A p \in Procs :
        (/\ proc[p].pc = "idle"
         /\ proc'[p].op \in {"submit_answer", "finish_test"}
         /\ proc'[p].attempt \in DOMAIN attempts
         /\ attempts[proc'[p].attempt].status = "COMPLETED")
        => (/\ proc'[p].pc = "done"
            /\ proc'[p].result = "AttemptAlreadyFinished"
            /\ attempts' = attempts
            /\ answers' = answers)]_vars

C4_Witness ==
    \E p, r \in Procs :
        /\ proc[p].pc = "done" /\ proc[r].pc = "done"
        /\ proc[p].op = "submit_answer" /\ proc[r].op = "finish_test"
        /\ proc[p].attempt = proc[r].attempt
        /\ proc[p].result = "AttemptAlreadyFinished"
        /\ proc[r].result = "AttemptAlreadyFinished"
        /\ attempts[proc[p].attempt].status = "COMPLETED"

\* C5: once an attempt is COMPLETED no step creates or changes a StudentAnswer
\* of it or writes another score, and the stored score is the one its
\* StudentAnswers give.
C5_NoMutationAfterCompletion ==
    [][\A a \in DOMAIN attempts :
        attempts[a].status = "COMPLETED" =>
            /\ RowsOf(a)' = RowsOf(a)
            /\ attempts'[a].score = attempts[a].score]_vars

C7_UpsertLatestWins ==
    [][/\ \A i, j \in DOMAIN answers' :
            (/\ answers'[i].attempt_id = answers'[j].attempt_id
             /\ answers'[i].question_id = answers'[j].question_id) => i = j
       /\ DOMAIN answers \subseteq DOMAIN answers'
       /\ \A i \in DOMAIN answers' :
            (i \notin DOMAIN answers \/ answers'[i] # answers[i]) =>
                \E p \in Procs :
                    /\ proc[p].pc = "sa_commit"
                    /\ proc'[p].pc = "done"
                    /\ answers'[i] = Submitted(proc[p])
       /\ \A p \in Procs :
            (proc[p].pc = "sa_commit" /\ proc'[p].pc = "done") =>
                /\ proc'[p].result = "ok"
                /\ \E i \in DOMAIN answers' : answers'[i] = Submitted(proc[p])
      ]_vars

\* a second submission for the pair has gone through the UPDATE path
C7_Witness ==
    \E p \in Procs :
        /\ proc[p].pc = "done" /\ proc[p].op = "submit_answer"
        /\ proc[p].result = "ok"
        /\ proc[p].found # 0
        /\ answers[proc[p].found] = Submitted(proc[p])
        /\ proc[p].is_correct = FALSE
        /\ Cardinality(DOMAIN answers) = 1

\* C8: in every reachable state there is at most one StudentAnswer per
\* (attempt, question), also when submit_answer calls interleave.
C8_OneAnswerPerQuestion ==
    \A i, j \in DOMAIN answers :
        (/\ answers[i].attempt_id = answers[j].attempt_id
         /\ answers[i].question_id = answers[j].question_id) => i = j
PointsOf(Q) ==
    (IF "q1" \in Q THEN questions["q1"].points ELSE 0)
    + (IF "q2" \in Q THEN questions["q2"].points ELSE 0)
    + (IF "q3" \in Q THEN questions["q3"].points ELSE 0)

QuestionsOfTest(t) == {q \in DOMAIN questions : questions[q].test_id = t}

AnsweredRight(a) ==
    {q \in DOMAIN questions :
        \E i \in DOMAIN answers :
            /\ answers[i].attempt_id = a
            /\ answers[i].question_id = q
            /\ answers[i].is_correct = TRUE}

RECURSIVE RowPoints(_, _)
RowPoints(a, n) ==
    IF n = 0 THEN 0
    ELSE RowPoints(a, n - 1)
         + (IF n \in DOMAIN answers /\ answers[n].attempt_id = a
                /\ answers[n].is_correct = TRUE
            THEN questions[answers[n].question_id].points ELSE 0)

\* C9: a successful finish_test returns total_possible_points = the points
\* of all questions of the test, earned_points = the points of the questions
\* of the StudentAnswers marked is_correct, and score = earned / total * 100,
\* or 0 when total is 0; that score is the one stored.
C9_ScoreFormula ==
    [][\A p \in Procs :
        /\ (proc[p].pc = "idle" /\ proc'[p].pc = "ft_update") =>
              LET a == proc'[p].attempt
                  total == PointsOf(QuestionsOfTest(attempts[a].test_id))
                  earned == RowPoints(a, nextId.answer)
              IN /\ proc'[p].total = total
                 /\ proc'[p].earned = earned
                 /\ Len(proc'[p].score) = 2
                 /\ total > 0 =>
                       proc'[p].score[1] * total
                           = earned * 100 * proc'[p].score[2]
                 /\ total = 0 => proc'[p].score = <<0, 1>>
        /\ (proc[p].pc = "ft_update" /\ proc'[p].pc = "done") =>
              /\ proc'[p].result = "ok"
              /\ proc'[p].total = proc[p].total
              /\ proc'[p].earned = proc[p].earned
              /\ proc'[p].score = proc[p].score
              /\ attempts'[proc[p].attempt].score = proc[p].score
              /\ attempts'[proc[p].attempt].status = "COMPLETED"]_vars

\* points 2, 3, 5 with only the second question answered right: 3 of 10, 30
C9_Witness ==
    \E p \in Procs :
        /\ proc[p].pc = "done" /\ proc[p].op = "finish_test"
        /\ proc[p].result = "ok"
        /\ questions["q1"].points = 2 /\ questions["q2"].points = 3
        /\ questions["q3"].points = 5
        /\ AnsweredRight(proc[p].attempt) = {"q2"}
        /\ proc[p].earned = 3 /\ proc[p].total = 10
        /\ proc[p].score = <<30, 1>>

\* C10: the stored score of every COMPLETED attempt lies between 0 and 100.
C10_ScoreWithinRange ==
    \A a \in DOMAIN attempts :
        attempts[a].status = "COMPLETED" =>
            /\ Len(attempts[a].score) = 2
            /\ 0 <= attempts[a].score[1]
            /\ attempts[a].score[1] <= 100 * attempts[a].score[2]

\* C11: a start_test of a student without IN_PROGRESS attempt goes on to the
\* test lookup; there it ends with TestNotFound, creating no attempt, when
\* the test is missing, DRAFT or ARCHIVED, and goes on to create the attempt
\* only when the test is PUBLISHED; attempts come from such requests only.
C11_PublishedOnlyStart ==
    [][/\ \A p \in Procs :
            /\ (/\ proc[p].pc = "idle"
                /\ proc'[p].op = "start_test"
                /\ InProgressOf(proc'[p].student) = {})
               => proc'[p].pc = "st_lookup"
            /\ (proc[p].pc = "st_lookup" /\ proc'[p].pc # "st_lookup") =>
                  IF proc[p].test \in DOMAIN tests
                        /\ tests[proc[p].test].status = "PUBLISHED"
                  THEN proc'[p].pc = "st_create"
                  ELSE /\ proc'[p].pc = "done"
                       /\ proc'[p].result = "TestNotFound"
                       /\ attempts' = attempts
            /\ (/\ proc[p].op = "start_test"
                /\ proc[p].pc # "done"
                /\ proc'[p].pc = "done"
                /\ proc'[p].result = "ok")
               => proc[p].pc = "st_create"
       /\ \A a \in DOMAIN attempts' \ DOMAIN attempts :
            \E p \in Procs :
                /\ proc[p].pc = "st_create"
                /\ proc'[p].pc = "done"
                /\ attempts'[a].test_id = proc[p].test
                /\ attempts'[a].student_id = proc[p].student]_vars

\* the test was attempted while PUBLISHED; archived since, a new start_test
\* of the student, who has no open attempt, has ended with TestNotFound
C11_Witness ==
    \E p \in Procs :
        /\ proc[p].pc = "done" /\ proc[p].op = "start_test"
        /\ proc[p].result = "TestNotFound"
        /\ proc[p].test \in DOMAIN tests
        /\ tests[proc[p].test].status = "ARCHIVED"
        /\ InProgressOf(proc[p].student) = {}
        /\ \E a \in DOMAIN attempts :
                /\ attempts[a].test_id = proc[p].test
                /\ attempts[a].student_id = proc[p].student
                /\ attempts[a].status = "COMPLETED"

\* C13: an IN_PROGRESS attempt of a student whose account stays is still
\* there and IN_PROGRESS after every step, except the step of a successful
\* finish_test on it, whatever teachers and admins do to the attempted test.
C13_OnlyFinishEndsAttempt ==
    [][\A a \in DOMAIN attempts :
        (/\ attempts[a].status = "IN_PROGRESS"
         /\ attempts[a].student_id \in DOMAIN entities')
        => \/ (a \in DOMAIN attempts' /\ attempts'[a].status = "IN_PROGRESS")
           \/ \E p \in Procs :
                /\ proc[p].op = "finish_test" /\ proc[p].attempt = a
                /\ proc[p].pc = "ft_update"
                /\ proc'[p].pc = "done" /\ proc'[p].result = "ok"
                /\ a \in DOMAIN attempts'
                /\ attempts'[a].status = "COMPLETED"]_vars

\* C12: a submit_answer naming an attempt that does not exist ends with
\* AttemptNotFound, one naming a question that is not a question of the
\* attempt's test ends with QuestionNotFoundInTest; either way the
\* StudentAnswers and the attempts stay as they were.
C12_SubmitFailureKeepsState ==
    [][\A p \in Procs :
        /\ (/\ proc[p].pc = "idle"
            /\ proc'[p].op = "submit_answer"
            /\ proc'[p].attempt \notin DOMAIN attempts)
           => (/\ proc'[p].pc = "done"
               /\ proc'[p].result = "AttemptNotFound"
               /\ answers' = answers
               /\ attempts' = attempts)
        /\ (/\ proc[p].pc = "sa_evaluate"
            /\ proc'[p].pc # "sa_evaluate"
            /\ proc[p].question
                  \notin QuestionsOfTest(attempts[proc[p].attempt].test_id))
           => (/\ proc'[p].pc = "done"
               /\ proc'[p].result = "QuestionNotFoundInTest"
               /\ answers' = answers
               /\ attempts' = attempts)]_vars

\* a question of another test was submitted to an open attempt that already
\* holds an answer
C12_Witness ==
    \E p \in Procs :
        /\ proc[p].pc = "done" /\ proc[p].op = "submit_answer"
        /\ proc[p].result = "QuestionNotFoundInTest"
        /\ proc[p].question \in DOMAIN questions
        /\ attempts[proc[p].attempt].status = "IN_PROGRESS"
        /\ questions[proc[p].question].test_id
              # attempts[proc[p].attempt].test_id
        /\ answers # <<>>

\* the student a request acts for: the caller of start_test, the owner of
\* the attempt named by submit_answer or finish_test
ActsFor(r) ==
    IF r.op = "start_test" THEN r.student
    ELSE IF r.attempt \in DOMAIN attempts
         THEN attempts[r.attempt].student_id ELSE 0

AttemptsOfStudent(s) == {a \in DOMAIN attempts : attempts[a].student_id = s}

\* C14: a step of start_test, submit_answer or finish_test for one student
\* leaves every other student's attempts (status, score) and StudentAnswers
\* as they were, creates no attempt for them and leaves the tests alone; a
\* start_test is turned away as ActiveTestAttemptExists only by an
\* IN_PROGRESS attempt of its own student.
C14_StudentsIndependent ==
    [][\A p \in Procs :
        /\ proc'[p] # proc[p] =>
              LET r == IF proc[p].pc = "idle" THEN proc'[p] ELSE proc[p]
              IN \A o \in Students \ {ActsFor(r)} :
                    /\ AttemptsOfStudent(o)' = AttemptsOfStudent(o)
                    /\ \A b \in AttemptsOfStudent(o) :
                          /\ attempts'[b] = attempts[b]
                          /\ RowsOf(b)' = RowsOf(b)
                    /\ tests' = tests
        /\ (proc[p].pc = "idle" /\ proc'[p].op = "start_test") =>
              ((proc'[p].pc = "done"
                    /\ proc'[p].result = "ActiveTestAttemptExists")
               <=> InProgressOf(proc'[p].student) # {})]_vars

\* one student has finished an answered attempt while the other one, who
\* started later, is still at work on an answered attempt
C14_Witness ==
    \E a, b \in DOMAIN attempts :
        /\ attempts[a].student_id # attempts[b].student_id
        /\ attempts[a].status = "COMPLETED"
        /\ attempts[a].score = <<200, 3>>
        /\ attempts[b].status = "IN_PROGRESS"
        /\ a < b
        /\ DOMAIN RowsOf(a) # {} /\ DOMAIN RowsOf(b) # {}

CompletedOn(t) ==
    {a \in DOMAIN attempts :
        attempts[a].test_id = t /\ attempts[a].status = "COMPLETED"}

\* the scores of the COMPLETED attempts 1..n of test t added up, as an
\* unreduced fraction
RECURSIVE ScoreTotal(_, _)
ScoreTotal(t, n) ==
    IF n = 0 THEN <<0, 1>>
    ELSE LET s == ScoreTotal(t, n - 1)
         IN IF n \in CompletedOn(t)
            THEN <<s[1] * attempts[n].score[2] + attempts[n].score[1] * s[2],
                   s[2] * attempts[n].score[2]>>
            ELSE s

\* C15: get_test_analytics called by the owner of the test reports
\* total_attempts = the number of COMPLETED attempts of the test and
\* average_score = the mean of their scores; with no COMPLETED attempt it
\* returns at once 0, null and an empty per-question list.
C15_AnalyticsTotals ==
    [][\A p \in Procs :
        /\ (/\ proc[p].pc = "idle"
            /\ proc'[p].op = "get_test_analytics"
            /\ proc'[p].test \in DOMAIN tests
            /\ tests[proc'[p].test].teacher_id = proc'[p].teacher)
           => LET n == Cardinality(CompletedOn(proc'[p].test))
                  S == ScoreTotal(proc'[p].test, nextId.attempt)
                  avg == proc'[p].average_score
              IN IF n = 0
                 THEN /\ proc'[p].pc = "done" /\ proc'[p].result = "ok"
                      /\ proc'[p].total_attempts = 0
                      /\ avg = <<>>
                      /\ proc'[p].question_analytics = <<>>
                 ELSE /\ proc'[p].pc = "ga_questions"
                      /\ proc'[p].total_attempts = n
                      /\ Len(avg) = 2
                      /\ avg[1] * S[2] * n = S[1] * avg[2]
        /\ (proc[p].pc = "ga_questions" /\ proc'[p].pc = "done")
           => /\ proc'[p].result = "ok"
              /\ proc'[p].total_attempts = proc[p].total_attempts
              /\ proc'[p].average_score = proc[p].average_score]_vars

\* two COMPLETED attempts with scores 200/3 and 0: mean 100/3
C15_Witness ==
    \E p \in Procs :
        /\ proc[p].pc = "done" /\ proc[p].op = "get_test_analytics"
        /\ proc[p].result = "ok"
        /\ proc[p].total_attempts = 2
        /\ proc[p].average_score = <<100, 3>>
        /\ \E a, b \in CompletedOn(proc[p].test) :
                attempts[a].score = <<200, 3>> /\ attempts[b].score = <<0, 1>>

SameLetter(x, y) ==
    x = y \/ {x, y} = {"A", "a"} \/ {x, y} = {"B", "b"}

\* the text holds the filter as a substring, letter case aside; no filter
\* matches every text
MatchesFilter(text, filter) ==
    \E k \in 0..(Len(text) - Len(filter)) :
        \A j \in 1..Len(filter) : SameLetter(text[k + j], filter[j])

AnswersInCompleted(t, q) ==
    {i \in DOMAIN answers :
        answers[i].question_id = q /\ answers[i].attempt_id \in CompletedOn(t)}

\* C16: with a COMPLETED attempt on the test, get_test_analytics lists every
\* question of the test that matches the filter, with the share (in percent)
\* of is_correct rows among its StudentAnswers of COMPLETED attempts, and 0
\* for a question without such StudentAnswers.
C16_PerQuestionAnalytics ==
    [][\A p \in Procs :
        (proc[p].pc = "ga_questions" /\ proc'[p].pc = "done")
        => LET t == proc[p].test
               listed == proc'[p].question_analytics
           IN /\ DOMAIN listed =
                    {q \in QuestionsOfTest(t) :
                        MatchesFilter(questions[q].question_text,
                                      proc[p].search_query)}
              /\ \A q \in DOMAIN listed :
                    LET rows == AnswersInCompleted(t, q)
                        right == {i \in rows : answers[i].is_correct = TRUE}
                    IN IF rows = {} THEN listed[q] = <<0, 1>>
                       ELSE listed[q][1] * Cardinality(rows)
                                = Cardinality(right) * 100 * listed[q][2]]_vars

\* C17: get_test_analytics and get_test_results called for an existing test
\* of another teacher end in a typed failure, Forbidden or NotFound.
C17_ForeignTestIsAFailure ==
    [][\A p \in Procs :
        (/\ proc[p].pc = "idle"
         /\ proc'[p].op \in {"get_test_analytics", "get_test_results"}
         /\ proc'[p].test \in DOMAIN tests
         /\ tests[proc'[p].test].teacher_id # proc'[p].teacher)
        => (/\ proc'[p].pc = "done"
            /\ proc'[p].result \in {"Forbidden", "NotFoundUuid"})]_vars

\* ---- authoring: titles and image cleanup
\* the teacher owns a test, other than `except`, that carries the title
OwnsTitle(teacher, title, except) ==
    \E t \in DOMAIN tests \ except :
        tests[t].teacher_id = teacher /\ tests[t].title = title

\* C18: create_test, and edit_test with a title, fail with AlreadyExists
\* (stored tests unchanged) exactly when the same teacher owns another test
\* with that title, so that two teachers can hold the same title; and no
\* teacher ever owns two tests with equal titles.
C18_TitleUniquePerAuthor ==
    [][/\ \A p \in Procs :
            /\ (proc[p].pc = "idle" /\ proc'[p].op = "create_test"
                 /\ proc'[p].teacher \in DOMAIN entities)
               => /\ (proc'[p].result = "AlreadyExists")
                       <=> OwnsTitle(proc'[p].teacher, proc'[p].title, {})
                  /\ proc'[p].result = "AlreadyExists" => tests' = tests
            /\ (proc[p].pc = "et_update" /\ proc[p].title # "none"
                 /\ proc[p].test \in DOMAIN tests
                 /\ tests[proc[p].test].teacher_id = proc[p].teacher)
               => /\ (proc'[p].result = "AlreadyExists")
                       <=> OwnsTitle(proc[p].teacher, proc[p].title,
                                     {proc[p].test})
                  /\ proc'[p].result = "AlreadyExists" => tests' = tests
       /\ \A t, u \in DOMAIN tests' :
            (t # u /\ tests'[t].teacher_id = tests'[u].teacher_id)
            => tests'[t].title # tests'[u].title]_vars


\* the key of the uploaded object an image reference points to, <<>> when
\* the reference is empty or points outside the bucket
StoredObject(u) ==
    IF Len(u) > 2 /\ u[1] = "localhost" /\ u[2] = "bucket"
    THEN SubSeq(u, 3, Len(u))
    ELSE <<>>

\* the uploaded objects referenced by the rows T, Q, O at the current state
StoredObjectsOf(T, Q, O) ==
    ({StoredObject(tests[t].image_url) : t \in T}
     \cup {StoredObject(questions[q].image_url) : q \in Q}
     \cup {StoredObject(options[o].image_url) : o \in O}) \ {<<>>}

\* C19: the step that completes a successful delete_test removes the test,
\* all its questions and all their answer options, and by then a deletion
\* request has been issued for every uploaded image these rows reference.
C19_DeleteTestCleansUp ==
    [][\A p \in Procs :
        (/\ proc[p].op = "delete_test" /\ proc[p].pc = "dt_delete"
         /\ proc'[p].pc = "done" /\ proc'[p].result = "ok")
        => LET t == proc[p].test
               Q == {q \in DOMAIN questions : questions[q].test_id = t}
               O == {o \in DOMAIN options : options[o].question_id \in Q}
           IN /\ t \notin DOMAIN tests'
              /\ Q \cap DOMAIN questions' = {}
              /\ O \cap DOMAIN options' = {}
              /\ StoredObjectsOf({t}, Q, O) \subseteq deleted_objects']_vars

\* C20: whatever operation removes a Test, Question or AnswerOption from the
\* store, a deletion request has been issued for each uploaded image the
\* removed rows referenced.
C20_EveryRemovalRequestsDeletion ==
    [][StoredObjectsOf(DOMAIN tests \ DOMAIN tests',
                       DOMAIN questions \ DOMAIN questions',
                       DOMAIN options \ DOMAIN options')
         \subseteq deleted_objects']_vars


\* ---- accounts and roles
\* the role a router requires
RequiredRole(op) ==
    IF op = "restrict_to_student" THEN "student"
    ELSE IF op = "restrict_to_teacher" THEN "teacher"
    ELSE "admin"

\* C21: at the student, the teacher and the admin router alike, a request
\* gets through the role check exactly when the role of its token is the
\* required role or is admin; every other request ends with 403.
C21_RoleCapability ==
    [][\A p \in Procs :
        (/\ proc[p].pc = "idle"
         /\ proc'[p].op \in {"restrict_to_student", "restrict_to_teacher",
                              "restrict_to_specialist", "approve_request",
                              "reject_request"})
        => LET role == proc'[p].payload[2]
               capable == role = RequiredRole(proc'[p].op) \/ role = "admin"
           IN /\ capable <=> ~(proc'[p].pc = "done" /\ proc'[p].result = "403")
              /\ (proc'[p].op \in {"restrict_to_student",
                                    "restrict_to_teacher",
                                    "restrict_to_specialist"} /\ capable)
                 => proc'[p].result = "pass"]_vars

\* an admin got through the student router, with tokens of all three roles
\* issued
C21_Witness ==
    /\ {t[2] : t \in tokens} = {"student", "teacher", "admin"}
    /\ \E p \in Procs :
         /\ proc[p].op = "restrict_to_student"
         /\ proc[p].payload[2] = "admin"
         /\ proc[p].result = "pass"


\* ---- what is stored at submission
\* the comparison made now: the options stored with the answer against the
\* options of its question that are correct now
ComparedNow(i) ==
    answers[i].chosen_options
      = {o \in DOMAIN options :
           options[o].question_id = answers[i].question_id
           /\ options[o].is_correct}

\* C22: the is_correct flag of a StudentAnswer changes only in the commit of
\* a submit_answer for its attempt and question, whatever happens to the
\* options of the question afterwards, and finish_test takes earned_points
\* from the stored flags.
C22_CorrectnessFixedAtSubmission ==
    [][/\ \A i \in DOMAIN answers \cap DOMAIN answers' :
            answers'[i].is_correct # answers[i].is_correct
            => \E p \in Procs :
                  /\ proc[p].op = "submit_answer" /\ proc[p].pc = "sa_commit"
                  /\ proc'[p].pc = "done"
                  /\ proc[p].attempt = answers[i].attempt_id
                  /\ proc[p].question = answers[i].question_id
                  /\ answers'[i].is_correct = proc[p].is_correct
       /\ \A p \in Procs :
            (proc[p].pc = "idle" /\ proc'[p].pc = "ft_update")
            => proc'[p].earned = RowPoints(proc'[p].attempt, MaxAnswers)]_vars

\* an attempt was finished with score 0 on the stored flag of an answer that
\* a comparison made now would count as correct
C22_Witness ==
    \E i \in DOMAIN answers :
        /\ ~answers[i].is_correct
        /\ ComparedNow(i)
        /\ attempts[answers[i].attempt_id].status = "COMPLETED"
        /\ attempts[answers[i].attempt_id].score = <<0, 1>>
        /\ proc[1].op = "finish_test" /\ proc[1].result = "ok"
        /\ proc[2].pc = "idle"

\* C26: every step of edit_question_with_answers on question Q leaves the
\* AnswerOptions of all other questions as they were and requests the
\* deletion of no image other than those of Q and of Q's AnswerOptions.
C26_EditQuestionFrame ==
    [][\A p \in Procs :
        (proc[p].op = "edit_question_with_answers" /\ proc'[p] # proc[p])
        => LET q == proc[p].question
               Others == {o \in DOMAIN options : options[o].question_id # q}
           IN /\ \A o \in Others :
                    o \in DOMAIN options' /\ options'[o] = options[o]
              /\ (deleted_objects' \ deleted_objects)
                    \subseteq StoredObjectsOf({}, {q} \cap DOMAIN questions,
                                              DOMAIN options \ Others)]_vars

\* ---------------------------------------------------------------- C23
DeletingOps ==
    {"delete_test", "delete_all_tests", "delete_question",
     "delete_all_questions_by_test_id"}

OwnedBy(t, c) == t \in DOMAIN tests /\ tests[t].teacher_id = c

\* C23: in delete_test, delete_all_tests, delete_question and
\* delete_all_questions_by_test_id the image deletion requests are issued
\* before the deletion of the rows is committed: the step that removes the
\* rows issues no request and ends the operation, and every request is
\* issued in a step that leaves the deletion of the rows still to come; a
\* call that names a test the caller does not own ends with NotFound in its
\* first step and issues no request.
C23_DeleteImagesFirst ==
    [][\A p \in Procs :
        (proc'[p] # proc[p] /\ proc'[p].op \in DeletingOps)
        => LET r == proc'[p]
           IN /\ catalogVars' # catalogVars
                    => deleted_objects' = deleted_objects /\ r.pc = "done"
              /\ deleted_objects' # deleted_objects
                    => r.pc \in {"dt_delete", "dat_delete", "dq_delete",
                                 "daq_delete"}
              /\ (proc[p].pc = "idle" /\ r.op # "delete_all_tests"
                   /\ ~OwnedBy(r.test, r.teacher))
                    => /\ r.pc = "done" /\ r.result = "NotFoundUuid"
                       /\ deleted_objects' = deleted_objects
                       /\ catalogVars' = catalogVars]_vars

\* delete_test of the owner is done: the rows are gone and the deletion of
\* the three uploaded images was requested
C23_Witness ==
    /\ proc[1].op = "delete_test" /\ proc[1].pc = "done"
    /\ proc[1].result = "ok"
    /\ "t1" \notin DOMAIN tests /\ "q1" \notin DOMAIN questions
    /\ {k1, k2, k3} \subseteq deleted_objects

\* ---------------------------------------------------------------- C24
\* C24: in every reachable state an attempt has no score exactly when its
\* status is IN_PROGRESS: start_test stores the attempt as IN_PROGRESS with
\* no score, finish_test writes COMPLETED and the score in one update.
C24_StatusScoreCoupling ==
    \A a \in DOMAIN attempts :
        (attempts[a].score = NullScore) <=> (attempts[a].status = IN_PROGRESS)

\* one attempt finished with a score beside one just started
C24_Witness ==
    \E a, b \in DOMAIN attempts :
        /\ attempts[a].status = COMPLETED /\ attempts[a].score # NullScore
        /\ attempts[b].status = IN_PROGRESS /\ attempts[b].score = NullScore
        /\ \E p \in Procs : proc[p].op = "finish_test" /\ proc[p].result = "ok"
                             /\ proc[p].attempt = a

\* ---------------------------------------------------------------- C25
\* C25: submit_answer and finish_test change an attempt (its status, its
\* score, its StudentAnswers) only when the caller is the student who owns
\* it: a step of a call made by another student leaves the attempt and its
\* answers as they were.
AnswersOf(ans, a) ==
    {<<i, ans[i]>> : i \in {j \in DOMAIN ans : ans[j].attempt_id = a}}

C25_AttemptOwnership ==
    [][\A p \in Procs :
        (proc[p].op \in {"submit_answer", "finish_test"}
         /\ proc'[p] # proc[p])
        => \A a \in DOMAIN attempts :
              attempts[a].student_id # proc[p].student
              => /\ a \in DOMAIN attempts' /\ attempts'[a] = attempts[a]
                 /\ AnswersOf(answers', a) = AnswersOf(answers, a)]_vars

\* ---------------------------------------------------------------- C27
Quiescent == \A p \in Procs : proc[p].pc \in {"idle", "done"}

\* C27: no stored Test, Question or AnswerOption holds an image reference
\* for which a deletion request was issued; stated for the states in which
\* no request is under way, so that the interval between the deletion
\* requests of an operation and its own commit is not counted.
C27_NoDanglingImage ==
    Quiescent
    => StoredObjectsOf(DOMAIN tests, DOMAIN questions, DOMAIN options)
          \cap deleted_objects = {}

\* ---------------------------------------------------------------- C28
\* C28: when edit_test fails, with AlreadyExists for a title in use or with
\* NotFound, the stored tests are as they were and no deletion request has
\* been issued for the image the test still references.
C28_EditTestAllOrNothing ==
    [][\A p \in Procs :
        (/\ proc'[p].op = "edit_test" /\ proc[p].pc # "done"
         /\ proc'[p].pc = "done"
         /\ proc'[p].result \in {"AlreadyExists", "NotFoundUuid"})
        => /\ tests' = tests
           /\ StoredObjectsOf({proc[p].test} \cap DOMAIN tests, {}, {})'
                 \cap deleted_objects' = {}]_vars

\* ---------------------------------------------------------------- C29
RequestsOf(rr, e) == {r \in DOMAIN rr : rr[r].entity_id = e}

\* the role an account had before any request: the seeded teachers and
\* admin, and student for every other account (register_entity)
RegisteredRole(e) ==
    IF e \in Teachers THEN TEACHER ELSE IF e = 20 THEN ADMIN ELSE STUDENT

\* the role an account holds follows from its requests: the requested role
\* of an approved request, the role it had before otherwise
RoleFollowsRequests(rr, en) ==
    \A e \in DOMAIN en :
        RequestsOf(rr, e) # {}
        => IF \E r \in RequestsOf(rr, e) : rr[r].status = APPROVED
           THEN \E r \in RequestsOf(rr, e) :
                    rr[r].status = APPROVED /\ en[e].role = rr[r].requested_role
           ELSE en[e].role = RegisteredRole(e)

\* C29: a role request changes status only from PENDING, to APPROVED or to
\* REJECTED, and never again; when no request is under way the role of the
\* requesting entity is the requested role exactly when a request of the
\* entity is APPROVED, also when approve_request and reject_request run
\* concurrently on the same request.
C29_RoleRequestStateMachine ==
    [][/\ \A r \in DOMAIN role_requests \cap DOMAIN role_requests' :
              role_requests'[r].status # role_requests[r].status
              => /\ role_requests[r].status = PENDING
                 /\ role_requests'[r].status \in {APPROVED, REJECTED}
       /\ Quiescent' => RoleFollowsRequests(role_requests', entities')]_vars

\* ---------------------------------------------------------------- C30
PendingOf(e) ==
    {r \in DOMAIN role_requests :
        role_requests[r].entity_id = e /\ role_requests[r].status = PENDING}

\* C30: no step leads to a state in which an entity has more than one role
\* request with status PENDING, and a login succeeds only for an entity
\* that has no PENDING request.
C30_OnePendingPerEntity ==
    [][/\ \A e \in DOMAIN entities' : Cardinality(PendingOf(e)') <= 1
       /\ \A p \in Procs :
             (proc'[p].op = "login" /\ proc[p].pc # "done"
              /\ proc'[p].pc = "done" /\ proc'[p].result = "ok")
             => PendingOf(proc'[p].entity) = {}]_vars

====
